---- MODULE Spec2Model ----
(***************************************************************************)
(* The editing session of src/components/EditorTabs.tsx: the three text    *)
(* buffers, the undo/redo history, the debounced propagation to the parent *)
(* (App.tsx / useLocalProject.ts), the debounced validation, snippet       *)
(* insertion, IME composition and the two modal panels.                    *)
(*                                                                         *)
(* Texts are sequences of one-character strings.  One action is one event  *)
(* handler together with the React render and the effects that follow it.  *)
(***************************************************************************)
EXTENDS Integers, Sequences, FiniteSets, TLC

(* ------------------------------------------------------------------ *)
(* Bounds of the exploration                                           *)
(* ------------------------------------------------------------------ *)
\* longest text of the active buffer into which the exploration inserts a snippet
MaxLen == 1
\* most undo-stack entries for which the session specification records another edit
MaxHist == 3

(* ------------------------------------------------------------------ *)
(* Text helpers (JavaScript String / RegExp primitives)                *)
(* ------------------------------------------------------------------ *)
UpperChars == <<"A","B","C","D","E","F","G","H","I","J","K","L","M",
                "N","O","P","Q","R","S","T","U","V","W","X","Y","Z">>
LowerChars == <<"a","b","c","d","e","f","g","h","i","j","k","l","m",
                "n","o","p","q","r","s","t","u","v","w","x","y","z">>
DigitChars == <<"0","1","2","3","4","5","6","7","8","9">>

Range(f) == { f[i] : i \in DOMAIN f }

UpperSet == Range(UpperChars)
LowerSet == Range(LowerChars)
DigitSet == Range(DigitChars)

IsUpper(c) == c \in UpperSet

\* String.prototype.toLowerCase on one character
LowerChar(c) ==
  IF IsUpper(c) THEN LowerChars[CHOOSE i \in 1..26 : UpperChars[i] = c] ELSE c

ToLower(s) == [i \in 1..Len(s) |-> LowerChar(s[i])]

\* \s of a regular expression
IsSpace(c) == c \in {" ", "\n", "\t", "\r", "\f"}

\* \w of a regular expression
IsWordChar(c) == c \in UpperSet \cup LowerSet \cup DigitSet \cup {"_"}

\* the character class [a-z0-9-] under the i flag
IsTagNameChar(c) == LowerChar(c) \in LowerSet \cup DigitSet \cup {"-"}

\* String.prototype.slice(from, to) with 0-based, end-exclusive offsets
Slice(s, from, to) ==
  IF to <= from THEN <<>> ELSE SubSeq(s, from + 1, to)

\* pat occurs in s at 0-based offset i (case-insensitive when ci)
MatchAt(s, pat, i, ci) ==
  /\ i >= 0
  /\ i + Len(pat) <= Len(s)
  /\ \A k \in 1..Len(pat) :
        IF ci THEN LowerChar(s[i + k]) = LowerChar(pat[k]) ELSE s[i + k] = pat[k]

\* String.prototype.includes
Includes(s, pat) == \E i \in 0..Len(s) : MatchAt(s, pat, i, FALSE)

\* String.prototype.startsWith / endsWith
StartsWith(s, pat) == MatchAt(s, pat, 0, FALSE)
EndsWith(s, pat) == MatchAt(s, pat, Len(s) - Len(pat), FALSE)

\* String.prototype.trim
RECURSIVE TrimStart(_)
TrimStart(s) ==
  IF s # <<>> /\ IsSpace(Head(s)) THEN TrimStart(Tail(s)) ELSE s
RECURSIVE TrimEnd(_)
TrimEnd(s) ==
  IF s # <<>> /\ IsSpace(s[Len(s)]) THEN TrimEnd(SubSeq(s, 1, Len(s) - 1)) ELSE s
Trim(s) == TrimEnd(TrimStart(s))

\* s.replace(/pat/gi, rep) for a literal pattern: every occurrence, left to right
RECURSIVE ReplaceAllCI(_, _, _)
ReplaceAllCI(s, pat, rep) ==
  IF s = <<>> THEN <<>>
  ELSE IF MatchAt(s, pat, 0, TRUE)
       THEN rep \o ReplaceAllCI(SubSeq(s, Len(pat) + 1, Len(s)), pat, rep)
       ELSE <<Head(s)>> \o ReplaceAllCI(Tail(s), pat, rep)

\* s.replace(/\n/g, rep)
RECURSIVE ReplaceNewlines(_, _)
ReplaceNewlines(s, rep) ==
  IF s = <<>> THEN <<>>
  ELSE (IF Head(s) = "\n" THEN rep ELSE <<Head(s)>>) \o ReplaceNewlines(Tail(s), rep)

(* ------------------------------------------------------------------ *)
(* normalizeSnippetForBeginners                                        *)
(* ------------------------------------------------------------------ *)
SnipKinds == {"html", "css", "js", "all"}
TabKeys == {"html", "css", "js"}

voidTags == << <<"i","m","g">>, <<"i","n","p","u","t">>, <<"b","r">>,
               <<"h","r">>, <<"m","e","t","a">>, <<"l","i","n","k">> >>

\* least member of a non-empty set of integers
Least(S) == CHOOSE x \in S : \A y \in S : x <= y

\* s.replace(new RegExp(`<${t}([^>]*)>`, "i"), (m, attrs) => `<${t}${attrs} />`):
\* the leftmost "<t", its attributes up to the first ">" after it
ReplaceOpen(s, t) ==
  LET pat  == <<"<">> \o t
      occ  == { i \in 0..Len(s) : MatchAt(s, pat, i, TRUE) }
  IN  IF occ = {} THEN s
      ELSE LET i    == Least(occ)
               gts  == { j \in (i + Len(pat))..(Len(s) - 1) : s[j + 1] = ">" }
           IN  IF gts = {} THEN s
               ELSE LET j == Least(gts)
                    IN  Slice(s, 0, i) \o pat \o Slice(s, i + Len(pat), j)
                          \o <<" ", "/", ">">> \o Slice(s, j + 1, Len(s))

\* a pass of the loop that leaves the closing tags in
VoidPassKeepsClosing(s, t) == ReplaceOpen(s, t)

\* one pass of the loop over voidTags: drop every closing tag, self-close the first opening tag
VoidPass(s, t) ==
  ReplaceOpen(ReplaceAllCI(s, <<"<", "/">> \o t \o <<">">>, <<>>), t)

RECURSIVE VoidLoop(_, _)
VoidLoop(s, k) ==
  IF k > Len(voidTags) THEN s ELSE VoidLoop(VoidPass(s, voidTags[k]), k + 1)

\* s.match(/^<([a-z0-9-]+)(\s|>)/i): the lower-cased tag name, or <<>> when there is no match
OpeningTag(s) ==
  IF s = <<>> \/ Head(s) # "<" THEN <<>>
  ELSE LET stops == { j \in 2..Len(s) : ~IsTagNameChar(s[j]) }
       IN  IF stops = {} THEN <<>>
           ELSE LET j == Least(stops)
                IN  IF j > 2 /\ (IsSpace(s[j]) \/ s[j] = ">")
                    THEN ToLower(SubSeq(s, 2, j - 1))
                    ELSE <<>>

\* new RegExp(`</${tag}>\\s*$`, "i").test(s)
HasClosingAtEnd(s, tag) ==
  LET pat == <<"<", "/">> \o tag \o <<">">>
  IN  \E i \in 0..Len(s) :
        /\ MatchAt(s, pat, i, TRUE)
        /\ \A k \in (i + Len(pat) + 1)..Len(s) : IsSpace(s[k])

AppendClosing(s) ==
  LET tag == OpeningTag(s)
  IN  IF tag # <<>> /\ tag \notin Range(voidTags) /\ ~HasClosingAtEnd(s, tag)
      THEN s \o <<"\n", "<", "/">> \o tag \o <<">", "\n">>
      ELSE s

EnsureNewline(s) == IF EndsWith(s, <<"\n">>) THEN s ELSE s \o <<"\n">>

\* normalizeSnippetForBeginners that treats every kind as markup
normalizeEveryKind(snippet, kind) ==
  LET s == Trim(snippet)
  IN  IF ~StartsWith(s, <<"<">>)
      THEN <<"<","d","i","v",">","\n"," "," ">>
             \o ReplaceNewlines(s, <<"\n"," "," ">>)
             \o <<"\n","<","/","d","i","v",">","\n">>
      ELSE EnsureNewline(AppendClosing(VoidLoop(s, 1)))

normalizeSnippetForBeginners(snippet, kind) ==
  IF kind # "html" THEN snippet
  ELSE LET s == Trim(snippet)
       IN  IF ~StartsWith(s, <<"<">>)
           THEN <<"<","d","i","v",">","\n"," "," ">>
                  \o ReplaceNewlines(s, <<"\n"," "," ">>)
                  \o <<"\n","<","/","d","i","v",">","\n">>
           ELSE EnsureNewline(AppendClosing(VoidLoop(s, 1)))

(* ------------------------------------------------------------------ *)
(* State                                                               *)
(* ------------------------------------------------------------------ *)
VARIABLES
  html, css, js,        \* useState: the three buffers, as of the last render
  project,              \* useLocalProject: the parent's project, passed down as the prop `project`
  latestRef,            \* the contents of the object latestRef.current refers to
  latestAlias,          \* k > 0: latestRef.current is the very object undoStack[k]; 0: an object of its own
  activeTab,            \* useState: the tab whose textarea is mounted
  showSnippet,          \* useState: snippet panel open
  showDocs,             \* useState: docs panel open
  query,                \* useState: the text of the snippet search box
  isComposing,          \* isComposing.current
  onChangeTimer,        \* onChangeTimer.current is non-null
  propTimers,           \* number of armed propagation timeouts (window.setTimeout, 400 ms)
  validationTimer,      \* validationTimer.current: "null", "live" (an armed timeout) or "dead" (a fired one)
  valTimers,            \* the armed validation timeouts, oldest first, each with its captured `tab`
  undoStack, redoStack, \* undoStack.current, redoStack.current (top = last element)
  errors,               \* useState: the diagnostics list
  favs, recent,         \* useState: the favorites and the recents
  keyClosure,           \* favs and recent as the registered keydown listener closed over them
  assistantOpen,        \* useState: the assistant form of the snippet panel is shown
  assistResult,         \* useState: << >> (null) or <<the snippet the assistant generated>>
  sinkThrows,           \* the parent: whether the onChange prop throws when it is called
  valWaits,             \* how long each armed validation timeout has waited, oldest first
  sinceRequest,         \* history variable: the time since scheduleValidation was called last
  replacedAt,           \* history variable: how long the timeout the last call replaced had waited (-1: none was armed)
  armedWith,            \* history variable: <<the buffers when the propagation timeout was armed last>>, else << >>
  stored,               \* localStorage: << the project under LS_KEY >>, << >> without one
  quota,                \* localStorage.setItem throws
  reading,              \* file imports awaiting readFileAsText: the field and the project each closed over
  searchQ,              \* SearchPanel useState q: the text of the question search box
  results,              \* SearchPanel useState: the result list shown
  loading,              \* SearchPanel useState
  cacheHit,             \* SearchPanel useState
  debounceRef,          \* SearchPanel: << >> or <<the text the armed timeout of debounceRef.current captured>>
  inflight,             \* SearchPanel: the doSearch calls suspended at an await, each with its query and the await it is at
  searchCache,          \* useDB: the object store searchCache, a set of [query, items, timestamp]
  now,                  \* Date.now(), in ms since the page was opened
  searchSeq,            \* history variable: how many doSearch calls were made
  applied,              \* history variable: the number of the doSearch call that set results last (0: none)
  callArg,              \* the function called outside a handler and its arguments (one call is followed)
  callRet,              \* what that call returned
  op,                   \* history variable: the handler that ran last
  delivered,            \* history variable: how often the last handler called the sink onChange
  dropped,              \* history variable: how many redo entries the last handler discarded
  recorded,             \* history variable: <<the snapshot the last handler gave pushHistorySnapshot>>, else << >>
  preUndo,              \* history variable: <<the buffers just before the undo that ran last>>, else << >>
  burst,                \* history variable: keystrokes typed since the propagation timer was last idle (2 = two or more)
  burstBase             \* history variable: Len(undoStack) when that burst began

bufVars   == << html, css, js, project, latestRef, latestAlias >>
uiVars    == << activeTab, showSnippet, showDocs, query >>
propVars  == << onChangeTimer, propTimers >>
valVars   == << validationTimer, valTimers >>
histVars  == << undoStack, redoStack >>
snipVars  == << favs, recent >>
\* what the effect that registers the keydown listener depends on
keyDeps   == << showSnippet, showDocs, query, activeTab, html, css, js >>
assistVars == << assistantOpen, assistResult >>
ghostVars == << op, delivered, dropped, recorded, preUndo, burst, burstBase >>

searchVars == << searchQ, results, loading, cacheHit, debounceRef, inflight, searchCache,
                now, searchSeq, applied >>
envVars == << sinkThrows, valWaits, sinceRequest, replacedAt, armedWith >>
coreVars == << bufVars, uiVars, isComposing, propVars, valVars, histVars, errors, snipVars,
              keyClosure, assistVars, ghostVars >>
editorVars == << coreVars, envVars >>

callVars == << callArg, callRet >>
\* what the handlers of EditorTabs have no access to
storeVars == << stored, quota, reading >>

asideVars == << searchVars, callVars, storeVars >>

vars == << editorVars, asideVars >>

Null == "null"

\* type HistoryState / Project
Snap(h, c, j) == [html |-> h, css |-> c, js |-> j]
Bufs == Snap(html, css, js)

HISTORY_LIMIT == 60

(* ------------------------------------------------------------------ *)
(* Inputs of the exploration                                           *)
(* ------------------------------------------------------------------ *)
\* values a textarea onChange event may carry
TypedTexts == { <<>>, <<"a">> }

\* the catalogue SNIPPETS, one entry per kind, with short texts
SNIPPETS ==
  << [label |-> <<"b">>, kind |-> "html", snippet |-> <<"<","b","r",">">>, description |-> <<"n">>],
     [label |-> <<"f">>, kind |-> "css",  snippet |-> <<"x">>, description |-> <<"r">>],
     [label |-> <<"q">>, kind |-> "js",   snippet |-> <<"y">>, description |-> <<"t">>],
     [label |-> <<"s">>, kind |-> "all",  snippet |-> <<"<","!",">","\n">>, description |-> <<"d">>] >>

\* the project the parent holds when the editor mounts (useLocalProject's initial state)
InitialProject == Snap(<<"h">>, <<"c">>, <<"j">>)

(* ------------------------------------------------------------------ *)
(* Validators                                                          *)
(* ------------------------------------------------------------------ *)
Diag(level, message) == [level |-> level, message |-> message]

\* validateHTML: DOMParser in text/html mode; a parsererror element is found
\* only when the text itself brings one
validateHTML(str) ==
  IF \E i \in 0..Len(str) :
       MatchAt(str, <<"<","p","a","r","s","e","r","e","r","r","o","r">>, i, TRUE)
  THEN << Diag("error", "HTML parse error") >>
  ELSE << >>

\* the running brace balance after the first n characters
RECURSIVE Balance(_, _)
Balance(str, n) ==
  IF n = 0 THEN 0
  ELSE Balance(str, n - 1)
         + (IF str[n] = "{" THEN 1 ELSE 0) - (IF str[n] = "}" THEN 1 ELSE 0)

\* /\b[A-Z]+\b/.test(str): a whole word made of upper-case letters only
HasUpperWord(str) ==
  \E i \in 1..Len(str) : \E j \in i..Len(str) :
    /\ \A k \in i..j : IsUpper(str[k])
    /\ (i = 1 \/ ~IsWordChar(str[i - 1]))
    /\ (j = Len(str) \/ ~IsWordChar(str[j + 1]))

\* validateCSS with the safeguard at open < -4
validateCSSGuard4(str) ==
  LET guard == { n \in 1..Len(str) : Balance(str, n) < -4 }
      stop  == IF guard = {} THEN Len(str) ELSE Least(guard)
      open  == Balance(str, stop)
  IN  (IF guard # {} THEN << Diag("error", "Unexpected '}'") >> ELSE << >>)
        \o (IF open > 0 THEN << Diag("error", "Missing closing '}'") >> ELSE << >>)
        \o (IF HasUpperWord(str)
            THEN << Diag("warning", "CSS properties appear uppercase - CSS is case-sensitive for some values") >>
            ELSE << >>)

validateCSS(str) ==
  LET guard == { n \in 1..Len(str) : Balance(str, n) < -5 }
      stop  == IF guard = {} THEN Len(str) ELSE Least(guard)
      open  == Balance(str, stop)
  IN  (IF guard # {} THEN << Diag("error", "Unexpected '}'") >> ELSE << >>)
        \o (IF open > 0 THEN << Diag("error", "Missing closing '}'") >> ELSE << >>)
        \o (IF HasUpperWord(str)
            THEN << Diag("warning", "CSS properties appear uppercase - CSS is case-sensitive for some values") >>
            ELSE << >>)

\* validateJS: new Function(str) only parses; whether the engine's parser
\* rejects a text is its own affair (throws), the empty body always parses
JsParserOutcomes(str) == IF str = <<>> THEN {FALSE} ELSE BOOLEAN
validateJS(str, throws) ==
  IF throws THEN << Diag("error", "JS syntax error") >> ELSE << >>

WithSource(ds, source) ==
  [i \in 1..Len(ds) |-> [level |-> ds[i].level, message |-> ds[i].message, source |-> source]]

\* the body of the validation timeout
validationPass(tab, current, throws) ==
  LET res == (IF tab = Null \/ tab = "html" THEN WithSource(validateHTML(current.html), "HTML") ELSE << >>)
               \o (IF tab = Null \/ tab = "css" THEN WithSource(validateCSS(current.css), "CSS") ELSE << >>)
               \o (IF tab = Null \/ tab = "js" THEN WithSource(validateJS(current.js, throws), "JS") ELSE << >>)
  IN  SubSeq(res, 1, IF Len(res) < 6 THEN Len(res) ELSE 6)

(* ------------------------------------------------------------------ *)
(* History                                                             *)
(* ------------------------------------------------------------------ *)
\* pushHistorySnapshot without the shift() at HISTORY_LIMIT
pushHistoryUnbounded(undo, redo, s, replaceLatest) ==
  IF replaceLatest /\ Len(undo) > 0
  THEN [undo |-> [undo EXCEPT ![Len(undo)] = s], redo |-> << >>]
  ELSE [undo |-> Append(undo, s), redo |-> << >>]

\* pushHistorySnapshot without redoStack.current = []
pushHistoryKeepsRedo(undo, redo, s, replaceLatest) ==
  IF replaceLatest /\ Len(undo) > 0
  THEN [undo |-> [undo EXCEPT ![Len(undo)] = s], redo |-> redo]
  ELSE LET pushed == Append(undo, s)
       IN  [undo |-> IF Len(pushed) > HISTORY_LIMIT THEN Tail(pushed) ELSE pushed,
            redo |-> redo]

\* pushHistorySnapshot, on the pair of stacks
pushHistorySnapshot(undo, redo, s, replaceLatest) ==
  IF replaceLatest /\ Len(undo) > 0
  THEN [undo |-> [undo EXCEPT ![Len(undo)] = s], redo |-> << >>]
  ELSE LET pushed == Append(undo, s)
       IN  [undo |-> IF Len(pushed) > HISTORY_LIMIT THEN Tail(pushed) ELSE pushed,
            redo |-> << >>]

\* where the object latestRef.current refers to sits after pushHistorySnapshot
AliasAfterPush(undo, alias, replaceLatest) ==
  IF alias = 0 THEN 0
  ELSE IF replaceLatest /\ Len(undo) > 0
       THEN (IF alias = Len(undo) THEN 0 ELSE alias)
       ELSE IF Len(undo) + 1 > HISTORY_LIMIT THEN alias - 1 ELSE alias

\* latestRef.current.<field> = v: a write through the reference, which reaches
\* the undo-stack entry when latestRef.current is that entry
WriteLatest(undo, alias, field, v) ==
  IF alias = 0 THEN undo ELSE [undo EXCEPT ![alias][field] = v]

(* ------------------------------------------------------------------ *)
(* Render: what React does after a handler returned                    *)
(* ------------------------------------------------------------------ *)
\* the value of a field that an object does not have
Undefined == << "undefined" >>

\* a field value that is a number, not a string
NumberValue == << "number" >>

\* typeof v === "string"
IsString(v) == v # Undefined /\ v # NumberValue

\* v || ""
OrEmpty(v) == IF v = Undefined THEN << >> ELSE v

\* a value is truthy
Truthy(v) == v # Undefined /\ v # << >>

\* useEffect [p.html, p.css, p.js]: when the prop changed, each buffer that
\* differs from it is set from it
BufsAfterRender(b, p) ==
  IF p # project THEN Snap(OrEmpty(p.html), OrEmpty(p.css), OrEmpty(p.js)) ELSE b

\* useEffect [html, css, js]: latestRef.current = { html, css, js }, a new object,
\* when a buffer changed in a render
Rerendered(b, p) == b # Bufs \/ BufsAfterRender(b, p) # b

\* b: the buffers the handler set, p: the project the handler left,
\* l, a: latestRef.current and its alias as the handler left them
Render(b, p, l, a) ==
  LET final == BufsAfterRender(b, p)
  IN  /\ html' = final.html
      /\ css' = final.css
      /\ js' = final.js
      /\ project' = p
      /\ latestRef' = IF Rerendered(b, p) THEN final ELSE l
      /\ latestAlias' = IF Rerendered(b, p) THEN 0 ELSE a

\* useLocalProject.save with the two statements of its try block swapped: a
\* throw of setItem skips setProject
saveStoresFirst(p) == IF quota THEN project ELSE p

\* useLocalProject.save, the sink behind onChange: setProject(p), before
\* setItem and inside the try block, so whatever setItem does
save(p) == p

\* useLocalProject.save: what localStorage holds after
\* localStorage.setItem(LS_KEY, JSON.stringify(p)), st before it
saveStores(p, st) == IF quota THEN st ELSE << p >>

\* try { onChange(p) } catch {}: the project the parent holds after the call,
\* proj when the call throws
onChange(p, proj) == IF sinkThrows THEN proj ELSE save(p)

(* ------------------------------------------------------------------ *)
(* Debounced propagation and validation                                *)
(* ------------------------------------------------------------------ *)
\* flushOnChange without the clearTimeout: the timeout armed before stays armed
flushOnChangeKeepsTimer(immediate, ref, timers, latest, proj) ==
  IF immediate
  THEN [ref |-> FALSE, timers |-> timers, project |-> onChange(latest, proj), calls |-> 1]
  ELSE [ref |-> TRUE, timers |-> timers + 1, project |-> proj, calls |-> 0]

\* flushOnChange that debounces an immediate request as well
flushOnChangeDefers(immediate, ref, timers, latest, proj) ==
  [ref |-> TRUE, timers |-> (IF ref THEN timers - 1 ELSE timers) + 1, project |-> proj, calls |-> 0]

\* flushOnChange(immediate): clear the timeout onChangeTimer.current names, then
\* either call the sink with a copy of latestRef.current or arm a new timeout
flushOnChange(immediate, ref, timers, latest, proj) ==
  LET cleared == IF ref THEN timers - 1 ELSE timers
  IN  IF immediate
      THEN [ref |-> FALSE, timers |-> cleared, project |-> onChange(latest, proj), calls |-> 1]
      ELSE [ref |-> TRUE, timers |-> cleared + 1, project |-> proj, calls |-> 0]

\* scheduleValidation without the clearTimeout: the timeout armed before stays armed
scheduleValidationQueues(tab, ref, timers) ==
  [ref |-> "live", timers |-> Append(timers, tab)]

\* scheduleValidation(tab): clear the timeout validationTimer.current names
\* (a no-op for one that fired), then arm a new one that captures tab
scheduleValidation(tab, ref, timers) ==
  LET cleared == IF ref = "live" THEN SubSeq(timers, 1, Len(timers) - 1) ELSE timers
  IN  [ref |-> "live", timers |-> Append(cleared, tab)]


(* ------------------------------------------------------------------ *)
(* Snippet search and recents                                          *)
(* ------------------------------------------------------------------ *)
\* the score getFilteredSnippets gives a pool entry; q is trimmed and lower-cased
Score(s, q, primaryKind, favList) ==
  LET hay == ToLower(s.label \o <<" ">> \o s.description \o <<" ">> \o s.snippet \o <<" ">>)
  IN  (IF s.kind = primaryKind THEN 50 ELSE 0)
        + (IF s.kind = "all" THEN 30 ELSE 0)
        + (IF \E i \in 1..Len(favList) : favList[i].snippet = s.snippet THEN 10 ELSE 0)
        + (IF q # << >> /\ StartsWith(ToLower(s.label), q) THEN 20 ELSE 0)
        + (IF q # << >> /\ Includes(hay, q) THEN 10 ELSE 0)

\* sort((a, b) => a.score - b.score): the entries by ascending score
RECURSIVE SortAscending(_, _, _, _, _)
SortAscending(pool, n, q, primaryKind, favList) ==
  IF n < 0 THEN << >>
  ELSE SortAscending(pool, n - 10, q, primaryKind, favList)
         \o SelectSeq(pool, LAMBDA s : Score(s, q, primaryKind, favList) = n)

\* Array.prototype.sort((a, b) => b.score - a.score), which is stable: the
\* entries by descending score, pool order kept among equal scores
RECURSIVE SortFrom(_, _, _, _, _)
SortFrom(pool, n, q, primaryKind, favList) ==
  IF n < 0 THEN << >>
  ELSE SelectSeq(pool, LAMBDA s : Score(s, q, primaryKind, favList) = n)
         \o SortFrom(pool, n - 10, q, primaryKind, favList)

\* filter by a Set of the bodies seen: the first entry of each body stays
RECURSIVE DedupeByBody(_, _)
DedupeByBody(list, seen) ==
  IF list = << >> THEN << >>
  ELSE IF Head(list).snippet \in seen THEN DedupeByBody(Tail(list), seen)
       ELSE << Head(list) >> \o DedupeByBody(Tail(list), seen \cup {Head(list).snippet})

\* getFilteredSnippets that removes the repeated bodies before it sorts
getFilteredSnippetsDedupeFirst(q0, primaryKind, favList) ==
  LET q        == ToLower(Trim(q0))
      pool     == SNIPPETS \o favList
      passing  == SelectSeq(pool, LAMBDA s : q = << >> \/ Score(s, q, primaryKind, favList) > 5)
  IN  SortFrom(DedupeByBody(passing, {}), 110, q, primaryKind, favList)

getFilteredSnippets(q0, primaryKind, favList) ==
  LET q        == ToLower(Trim(q0))
      pool     == SNIPPETS \o favList
      passing  == SelectSeq(pool, LAMBDA s : q = << >> \/ Score(s, q, primaryKind, favList) > 5)
  IN  DedupeByBody(SortFrom(passing, 110, q, primaryKind, favList), {})

\* the recents after an insertion of the normalized body of meta
RecentAfterInsert(list, meta, normalized) ==
  LET rItem  == [label |-> meta.label, kind |-> meta.kind, snippet |-> normalized,
                 description |-> meta.description]
      merged == << rItem >> \o SelectSeq(list, LAMBDA r : r.snippet # normalized)
  IN  SubSeq(merged, 1, IF Len(merged) < 8 THEN Len(merged) ELSE 8)

(* ------------------------------------------------------------------ *)
(* Handlers                                                            *)
(* ------------------------------------------------------------------ *)
Buf(b, tab) == b[tab]

\* history variables as a handler other than a keystroke or an undo leaves them
Quiet(name, calls, lost, pushed) ==
  /\ op' = name
  /\ delivered' = calls
  /\ dropped' = lost
  /\ recorded' = pushed
  /\ preUndo' = << >>
  /\ burst' = 0
  /\ burstBase' = 0

\* textarea onChange of the mounted textarea, e.target.value = v
OnChange(v) ==
  /\ v # Buf(Bufs, activeTab)
  /\ LET b     == [Bufs EXCEPT ![activeTab] = v]
         \* latestRef.current.<tab> = e.target.value
         undo1 == WriteLatest(undoStack, latestAlias, activeTab, v)
         l1    == [latestRef EXCEPT ![activeTab] = v]
     IN  IF isComposing
         THEN /\ Render(b, project, l1, latestAlias)
              /\ undoStack' = undo1
              /\ UNCHANGED << redoStack, propVars, valVars >>
              /\ Quiet("compose", 0, 0, << >>)
         ELSE \* scheduleChangeAndValidate(tab), with html, css, js of the render
              \* the handler was created in
              LET l2 == Bufs
                  f  == flushOnChange(FALSE, onChangeTimer, propTimers, l2, project)
                  sv == scheduleValidation(activeTab, validationTimer, valTimers)
                  h  == pushHistorySnapshot(undo1, redoStack, l2, FALSE)
              IN  /\ Render(b, f.project, l2, 0)
                  /\ undoStack' = h.undo
                  /\ redoStack' = h.redo
                  /\ onChangeTimer' = f.ref
                  /\ propTimers' = f.timers
                  /\ validationTimer' = sv.ref
                  /\ valTimers' = sv.timers
                  /\ op' = "type"
                  /\ delivered' = f.calls
                  /\ dropped' = Len(redoStack) - Len(h.redo)
                  /\ recorded' = << l2 >>
                  /\ preUndo' = << >>
                  /\ burst' = IF propTimers > 0 /\ burst > 0 THEN 2 ELSE 1
                  /\ burstBase' = IF propTimers > 0 /\ burst > 0 THEN burstBase ELSE Len(undoStack)
  /\ UNCHANGED << uiVars, isComposing, errors, snipVars >>

\* textarea onBlur
OnBlur ==
  /\ LET f  == flushOnChange(TRUE, onChangeTimer, propTimers, latestRef, project)
         sv == scheduleValidation(activeTab, validationTimer, valTimers)
     IN  /\ Render(Bufs, f.project, latestRef, latestAlias)
         /\ onChangeTimer' = f.ref
         /\ propTimers' = f.timers
         /\ validationTimer' = sv.ref
         /\ valTimers' = sv.timers
         /\ Quiet("blur", f.calls, 0, << >>)
  /\ UNCHANGED << uiVars, isComposing, histVars, errors, snipVars >>

onCompositionStart ==
  /\ ~isComposing
  /\ isComposing' = TRUE
  /\ Quiet("compositionstart", 0, 0, << >>)
  /\ UNCHANGED << bufVars, uiVars, propVars, valVars, histVars, errors, snipVars >>

onCompositionEnd ==
  /\ isComposing
  /\ isComposing' = FALSE
  /\ Quiet("compositionend", 0, 0, << >>)
  /\ UNCHANGED << bufVars, uiVars, propVars, valVars, histVars, errors, snipVars >>

\* the propagation timeout fires, its callback delivering the buffers of the
\* time it was armed
FirePropagationStale ==
  /\ propTimers > 0
  /\ Render(Bufs, onChange(IF armedWith = << >> THEN latestRef ELSE armedWith[1], project),
            latestRef, latestAlias)
  /\ onChangeTimer' = FALSE
  /\ propTimers' = propTimers - 1
  /\ op' = "propagate"
  /\ delivered' = 1
  /\ dropped' = 0
  /\ recorded' = << >>
  /\ preUndo' = << >>
  /\ UNCHANGED << uiVars, isComposing, valVars, histVars, errors, snipVars, burst, burstBase >>

\* the propagation timeout fires, its callback without the try/catch: a throw
\* of the sink ends the callback before onChangeTimer.current = null
FirePropagationUncaught ==
  /\ propTimers > 0
  /\ Render(Bufs, onChange(latestRef, project), latestRef, latestAlias)
  /\ onChangeTimer' = IF sinkThrows THEN onChangeTimer ELSE FALSE
  /\ propTimers' = propTimers - 1
  /\ op' = "propagate"
  /\ delivered' = 1
  /\ dropped' = 0
  /\ recorded' = << >>
  /\ preUndo' = << >>
  /\ UNCHANGED << uiVars, isComposing, valVars, histVars, errors, snipVars, burst, burstBase >>

\* the propagation timeout fires
FirePropagation ==
  /\ propTimers > 0
  /\ Render(Bufs, onChange(latestRef, project), latestRef, latestAlias)
  /\ onChangeTimer' = FALSE
  /\ propTimers' = propTimers - 1
  /\ op' = "propagate"
  /\ delivered' = 1
  /\ dropped' = 0
  /\ recorded' = << >>
  /\ preUndo' = << >>
  /\ UNCHANGED << uiVars, isComposing, valVars, histVars, errors, snipVars, burst, burstBase >>

\* the oldest validation timeout fires
FireValidation ==
  /\ valTimers # << >>
  /\ \E throws \in JsParserOutcomes(latestRef.js) :
       errors' = validationPass(Head(valTimers), latestRef, throws)
  /\ valTimers' = Tail(valTimers)
  /\ validationTimer' = IF Len(valTimers) = 1 THEN "dead" ELSE validationTimer
  /\ op' = "validate"
  /\ delivered' = 0
  /\ dropped' = 0
  /\ recorded' = << >>
  /\ preUndo' = << >>
  /\ UNCHANGED << bufVars, uiVars, isComposing, propVars, histVars, snipVars, burst, burstBase >>

\* App.importCssFileLocal, the text of the file being txt: save({ ...project, css: txt })
importCssFileLocal(txt) ==
  /\ Render(Bufs, save([project EXCEPT !.css = txt]), latestRef, latestAlias)
  /\ Quiet("import", 0, 0, << >>)
  /\ UNCHANGED << uiVars, isComposing, propVars, valVars, histVars, errors, snipVars >>

\* App.onCssFile, App.onJsFile: importCssFileLocal or importJsFileLocal up to
\* its await readFileAsText(file), with the project of the render that
\* created the handler
onFile(field) ==
  /\ reading = << >>
  /\ reading' = << [field |-> field, project |-> project] >>
  /\ Quiet("file", 0, 0, << >>)
  /\ UNCHANGED << bufVars, uiVars, isComposing, propVars, valVars, histVars, errors, snipVars >>

\* readFileAsText resolves with txt: save({ ...project, css: txt }) or
\* save({ ...project, js: txt })
importResumes(txt) ==
  /\ reading # << >>
  /\ LET r == Head(reading)
     IN  Render(Bufs, save([r.project EXCEPT ![r.field] = txt]), latestRef, latestAlias)
  /\ reading' = Tail(reading)
  /\ Quiet("import", 0, 0, << >>)
  /\ UNCHANGED << uiVars, isComposing, propVars, valVars, histVars, errors, snipVars >>

\* what JSON.parse returns: code is << >> when the object has no code field (or
\* a falsy one), else << the value of the field >>
Json(code, h, c, j) == [parses |-> TRUE, code |-> code, html |-> h, css |-> c, js |-> j]

\* JSON.parse throws on the text of the file
Unparsable == [Json(<< >>, Undefined, Undefined, Undefined) EXCEPT !.parses = FALSE]

\* App.importJsonFileLocal, parsed being what JSON.parse makes of the file
importJsonFileLocal(parsed) ==
  /\ IF ~parsed.parses
     THEN Render(Bufs, project, latestRef, latestAlias)
     ELSE IF parsed.code # << >>
     THEN Render(Bufs, save(parsed.code[1]), latestRef, latestAlias)
     ELSE IF Truthy(parsed.html) \/ Truthy(parsed.css) \/ Truthy(parsed.js)
     THEN Render(Bufs, save(Snap(OrEmpty(parsed.html), OrEmpty(parsed.css), OrEmpty(parsed.js))),
                 latestRef, latestAlias)
     ELSE Render(Bufs, project, latestRef, latestAlias)
  /\ Quiet("import-json", 0, 0, << >>)
  /\ UNCHANGED << uiVars, isComposing, propVars, valVars, histVars, errors, snipVars >>

\* the buffer a snippet of a kind goes to
TargetTab(kind) == IF kind = "html" \/ kind = "all" THEN "html" ELSE kind

\* the textarea insertSnippet reads: the target's ref when its textarea is
\* mounted, else the active tab's; only the active tab's textarea is mounted
FinalArea(kind, tab) == IF TargetTab(kind) = tab THEN TargetTab(kind) ELSE tab

\* insertSnippet that builds the snapshot it records and delivers from the
\* project prop instead of latestRef.current
insertSnippetFromProject(meta, keepOpen, recent0, start, end) ==
  LET targetKind == meta.kind
      target     == TargetTab(targetKind)
      tab1       == IF targetKind # activeTab /\ targetKind # "all" THEN targetKind
                    ELSE IF targetKind = "all" THEN "html" ELSE activeTab
      normalized == normalizeSnippetForBeginners(meta.snippet, targetKind)
      value      == Buf(Bufs, FinalArea(targetKind, activeTab))
      newVal     == Slice(value, 0, start) \o normalized \o Slice(value, end, Len(value))
      b          == [Bufs EXCEPT ![target] = newVal]
      undo1      == WriteLatest(undoStack, latestAlias, target, newVal)
      l1         == [project EXCEPT ![target] = newVal]
      h          == pushHistorySnapshot(undo1, redoStack, l1, FALSE)
      a1         == AliasAfterPush(undo1, latestAlias, FALSE)
      f          == flushOnChange(TRUE, onChangeTimer, propTimers, l1, project)
      sv         == scheduleValidation(target, validationTimer, valTimers)
  IN  /\ Render(b, f.project, l1, a1)
      /\ activeTab' = tab1
      /\ undoStack' = h.undo
      /\ redoStack' = h.redo
      /\ recent' = RecentAfterInsert(recent0, meta, normalized)
      /\ showSnippet' = IF keepOpen THEN showSnippet ELSE FALSE
      /\ query' = << >>
      /\ onChangeTimer' = f.ref
      /\ propTimers' = f.timers
      /\ validationTimer' = sv.ref
      /\ valTimers' = sv.timers
      /\ Quiet("insert", f.calls, Len(redoStack) - Len(h.redo), << l1 >>)
      /\ UNCHANGED << showDocs, isComposing, errors >>

\* insertSnippet(snippet, meta, options), the caret of the textarea it reads at start..end
\* and recent0 the recents as the caller's closure holds them
insertSnippet(meta, keepOpen, recent0, start, end) ==
  LET targetKind == meta.kind
      target     == TargetTab(targetKind)
      tab1       == IF targetKind # activeTab /\ targetKind # "all" THEN targetKind
                    ELSE IF targetKind = "all" THEN "html" ELSE activeTab
      normalized == normalizeSnippetForBeginners(meta.snippet, targetKind)
      value      == Buf(Bufs, FinalArea(targetKind, activeTab))
      newVal     == Slice(value, 0, start) \o normalized \o Slice(value, end, Len(value))
      b          == [Bufs EXCEPT ![target] = newVal]
      undo1      == WriteLatest(undoStack, latestAlias, target, newVal)
      l1         == [latestRef EXCEPT ![target] = newVal]
      h          == pushHistorySnapshot(undo1, redoStack, l1, FALSE)
      a1         == AliasAfterPush(undo1, latestAlias, FALSE)
      f          == flushOnChange(TRUE, onChangeTimer, propTimers, l1, project)
      sv         == scheduleValidation(target, validationTimer, valTimers)
  IN  /\ Render(b, f.project, l1, a1)
      /\ activeTab' = tab1
      /\ undoStack' = h.undo
      /\ redoStack' = h.redo
      /\ recent' = RecentAfterInsert(recent0, meta, normalized)
      /\ showSnippet' = IF keepOpen THEN showSnippet ELSE FALSE
      /\ query' = << >>
      /\ onChangeTimer' = f.ref
      /\ propTimers' = f.timers
      /\ validationTimer' = sv.ref
      /\ valTimers' = sv.timers
      /\ Quiet("insert", f.calls, Len(redoStack) - Len(h.redo), << l1 >>)
      /\ UNCHANGED << showDocs, isComposing, errors >>

\* the selections the mounted textarea may have
Carets == { c \in (0..Len(Buf(Bufs, activeTab))) \X (0..Len(Buf(Bufs, activeTab))) : c[1] <= c[2] }

\* a keystroke the exploration follows: it is part of a composition or the history is within bounds
MayType == isComposing \/ Len(undoStack) < MaxHist

\* an insertion the exploration follows: history and the text inserted into within bounds
MayInsert == Len(undoStack) < MaxHist /\ Len(Buf(Bufs, activeTab)) <= MaxLen

\* an Insert button of the snippet list, for one of the catalogue entries in pool
InsertClick(pool) ==
  /\ showSnippet
  /\ MayInsert
  /\ \E k \in pool : \E c \in Carets : insertSnippet(SNIPPETS[k], FALSE, recent, c[1], c[2])
  /\ favs' = favs

\* applyHistoryState(state), state being the entry undoStack[k]
\* applyHistoryState with a debounced flush, flushOnChange(false)
applyHistoryStateDebounced(state, k) ==
  LET f == flushOnChange(FALSE, onChangeTimer, propTimers, state, project)
  IN  /\ Render(state, f.project, state, k)
      /\ onChangeTimer' = f.ref
      /\ propTimers' = f.timers
      /\ delivered' = f.calls

applyHistoryState(state, k) ==
  LET f == flushOnChange(TRUE, onChangeTimer, propTimers, state, project)
  IN  /\ Render(state, f.project, state, k)
      /\ onChangeTimer' = f.ref
      /\ propTimers' = f.timers
      /\ delivered' = f.calls

\* undo that returns early on an empty stack only: the last entry is popped too
undoEmpties ==
  IF Len(undoStack) = 0
  THEN UNCHANGED vars
  ELSE LET top  == undoStack[Len(undoStack)]
           rest == SubSeq(undoStack, 1, Len(undoStack) - 1)
           prev == IF rest = << >> THEN top ELSE rest[Len(rest)]
       IN  /\ undoStack' = rest
           /\ redoStack' = Append(redoStack, top)
           /\ applyHistoryState(prev, Len(rest))
           /\ op' = "undo"
           /\ dropped' = 0
           /\ recorded' = << >>
           /\ preUndo' = << Bufs >>
           /\ burst' = 0
           /\ burstBase' = 0
           /\ UNCHANGED << uiVars, isComposing, valVars, errors, snipVars >>

undo ==
  IF Len(undoStack) <= 1
  THEN UNCHANGED vars
  ELSE LET top  == undoStack[Len(undoStack)]
           rest == SubSeq(undoStack, 1, Len(undoStack) - 1)
           prev == rest[Len(rest)]
       IN  /\ undoStack' = rest
           /\ redoStack' = Append(redoStack, top)
           /\ applyHistoryState(prev, Len(rest))
           /\ op' = "undo"
           /\ dropped' = 0
           /\ recorded' = << >>
           /\ preUndo' = << Bufs >>
           /\ burst' = 0
           /\ burstBase' = 0
           /\ UNCHANGED << uiVars, isComposing, valVars, errors, snipVars >>

redo ==
  IF redoStack = << >>
  THEN UNCHANGED vars
  ELSE LET top == redoStack[Len(redoStack)]
       IN  /\ redoStack' = SubSeq(redoStack, 1, Len(redoStack) - 1)
           /\ undoStack' = Append(undoStack, top)
           /\ applyHistoryState(top, Len(undoStack) + 1)
           /\ op' = "redo"
           /\ dropped' = 0
           /\ recorded' = << >>
           /\ preUndo' = << >>
           /\ burst' = 0
           /\ burstBase' = 0
           /\ UNCHANGED << uiVars, isComposing, valVars, errors, snipVars >>

SetPanels(snip, docs) ==
  /\ showSnippet' = snip
  /\ showDocs' = docs
  /\ Quiet(IF (snip /\ showDocs) \/ (docs /\ showSnippet) THEN "panel-switch" ELSE "panel", 0, 0, << >>)
  /\ UNCHANGED << bufVars, activeTab, query, isComposing, propVars, valVars, histVars,
                  errors, snipVars >>

\* setActiveTab(tab)
SetTab(tab) ==
  /\ activeTab' = tab
  /\ Quiet("tab", 0, 0, << >>)
  /\ UNCHANGED << bufVars, showSnippet, showDocs, query, isComposing, propVars, valVars,
                  histVars, errors, snipVars >>

\* Enter with the snippet panel open: insert the first search result; the
\* listener works on the favs and recent it closed over
InsertTop(keepOpen) ==
  LET list == getFilteredSnippets(query, activeTab, keyClosure.favs)
  IN  IF showSnippet /\ Len(list) > 0
      THEN /\ MayInsert
           /\ \E c \in Carets : insertSnippet(list[1], keepOpen, keyClosure.recent, c[1], c[2])
           /\ favs' = favs
      ELSE UNCHANGED vars

\* the keydown listener on window; key names the shortcut pressed
Keys == { "mod+k", "mod+/", "Escape", "alt+1", "alt+2", "alt+3", "mod+z", "mod+shift+z",
          "mod+y", "Enter", "shift+Enter" }

\* the keydown listener without its test of isComposing.current
onKeyWhileComposing(key) ==
  CASE key = "mod+k"  -> SetPanels(~showSnippet, FALSE)
    [] key = "mod+/"  -> SetPanels(FALSE, ~showDocs)
    [] key = "Escape" -> SetPanels(FALSE, FALSE)
    [] key = "alt+1"  -> SetTab("html")
    [] key = "alt+2"  -> SetTab("css")
    [] key = "alt+3"  -> SetTab("js")
    [] key = "mod+z"  -> undo
    [] key \in {"mod+shift+z", "mod+y"} -> redo
    [] key = "Enter"  -> InsertTop(FALSE)
    [] key = "shift+Enter" -> InsertTop(TRUE)

onKey(key) ==
  IF isComposing THEN UNCHANGED vars
  ELSE CASE key = "mod+k"  -> SetPanels(~showSnippet, FALSE)
         [] key = "mod+/"  -> SetPanels(FALSE, ~showDocs)
         [] key = "Escape" -> SetPanels(FALSE, FALSE)
         [] key = "alt+1"  -> SetTab("html")
         [] key = "alt+2"  -> SetTab("css")
         [] key = "alt+3"  -> SetTab("js")
         [] key = "mod+z"  -> undo
         [] key \in {"mod+shift+z", "mod+y"} -> redo
         [] key = "Enter"  -> InsertTop(FALSE)
         [] key = "shift+Enter" -> InsertTop(TRUE)

KeyDown(keys) == \E key \in keys : onKey(key)

\* the Insert button without its setShowDocs(false)
InsertButtonKeepsDocs == SetPanels(~showSnippet, showDocs)

\* the Insert and Docs buttons of the toolbar, the Close button of the docs panel
InsertButton == SetPanels(~showSnippet, FALSE)
DocsButton == SetPanels(FALSE, ~showDocs)
DocsClose == showDocs /\ SetPanels(showSnippet, FALSE)

\* the tab buttons
TabClick(tabs) == \E tab \in tabs : SetTab(tab)

(* ------------------------------------------------------------------ *)
(* Favorites and the assistant                                         *)
(* ------------------------------------------------------------------ *)
FavLimit == 30

\* most favorites for which the exploration follows another assistant Insert
MaxFavs == 2

\* title.toLowerCase().replace(/[^a-z0-9]+/g, '-') on a lower-cased text: every
\* run of other characters becomes one '-'
RECURSIVE SlugFrom(_, _)
SlugFrom(s, i) ==
  IF i > Len(s) THEN << >>
  ELSE IF s[i] \in LowerSet \cup DigitSet THEN << s[i] >> \o SlugFrom(s, i + 1)
       ELSE IF i > 1 /\ s[i - 1] \notin LowerSet \cup DigitSet THEN SlugFrom(s, i + 1)
            ELSE << "-" >> \o SlugFrom(s, i + 1)

Slug(title) == SlugFrom(ToLower(title), 1)

DefaultTitle == <<"C","o","m","p","o","n","e","n","t">>

AssistDescription ==
  <<"G","e","n","e","r","a","t","e","d"," ","b","y"," ","S","m","a","r","t"," ","A","s","s","i",
    "s","t","a","n","t">>

\* the template of a generated style rule, around the class name
CssHead ==
  <<" ","{","\n"," "," ","p","a","d","d","i","n","g",":"," ","1","6","p","x",";","\n"," "," ",
    "b","o","r","d","e","r","-","r","a","d","i","u","s",":"," ","8","p","x",";","\n"," "," ","b",
    "a","c","k","g","r","o","u","n","d",":"," ","l","i","n","e","a","r","-","g","r","a","d","i",
    "e","n","t","(","9","0","d","e","g",",","#","f","f","f",",","#","f","3","f","4","f","6",")",
    ";","\n","}","\n">>

CssMediaOpen ==
  <<"@","m","e","d","i","a","(","m","a","x","-","w","i","d","t","h",":","7","6","8","p","x",")",
    "{"," ",".">>

CssMediaClose ==
  <<" ","{"," ","p","a","d","d","i","n","g",":","1","2","p","x"," ","}"," ","}","\n">>

\* the title the user has typed into the assistant form (empty would be the default)
AssistTitles == { <<"A"," ","b">> }

\* assistOptions.responsive as the form holds it: its initial value
AssistResponsive == { TRUE }

\* runAssistantGenerate with the form on kind css: assistTitle = title0,
\* assistOptions.responsive = responsive
GeneratedCss(title0, responsive) ==
  LET title     == IF title0 = << >> THEN DefaultTitle ELSE title0
      generated == << "." >> \o Slug(title) \o CssHead
                     \o (IF responsive THEN CssMediaOpen \o Slug(title) \o CssMediaClose
                         ELSE << >>)
  IN  [label |-> <<"C","S","S",":"," ">> \o title, kind |-> "css",
       snippet |-> normalizeSnippetForBeginners(generated, "css"),
       description |-> AssistDescription]

\* the Fill-In Assistant button of the snippet panel
ToggleAssistant ==
  /\ showSnippet
  /\ assistantOpen' = ~assistantOpen
  /\ Quiet("assistant", 0, 0, << >>)
  /\ UNCHANGED << bufVars, uiVars, isComposing, propVars, valVars, histVars, errors,
                  snipVars, assistResult >>

\* the Generate button of the assistant form
runAssistantGenerate ==
  /\ showSnippet /\ assistantOpen
  /\ \E title0 \in AssistTitles : \E responsive \in AssistResponsive :
       assistResult' = << GeneratedCss(title0, responsive) >>
  /\ Quiet("generate", 0, 0, << >>)
  /\ UNCHANGED << bufVars, uiVars, isComposing, propVars, valVars, histVars, errors,
                  snipVars, assistantOpen >>

\* the Insert button of the assistant form
AssistInsert ==
  /\ showSnippet /\ assistantOpen
  /\ assistResult # << >>
  /\ MayInsert /\ Len(favs) < MaxFavs
  /\ \E c \in Carets : insertSnippet(assistResult[1], FALSE, recent, c[1], c[2])
  \* saveFavs([assistResult, ...favs])
  /\ favs' = << assistResult[1] >> \o favs
  /\ UNCHANGED assistVars

\* toggleFav(s)
toggleFav(s) ==
  /\ favs' = IF \E i \in 1..Len(favs) : favs[i].snippet = s.snippet
             THEN SelectSeq(favs, LAMBDA f : f.snippet # s.snippet)
             ELSE LET next == << s >> \o favs
                  IN  SubSeq(next, 1, IF Len(next) < FavLimit THEN Len(next) ELSE FavLimit)
  /\ Quiet("fav", 0, 0, << >>)
  /\ UNCHANGED << bufVars, uiVars, isComposing, propVars, valVars, histVars, errors,
                  recent, assistVars >>

\* a star button of the snippet panel: of one of the catalogue entries in
\* pool, of a favorite or of a recent
StarClick(pool) ==
  /\ showSnippet
  /\ \E s \in { SNIPPETS[k] : k \in pool } \cup Range(favs) \cup Range(recent) :
       /\ Len(favs) < MaxFavs \/ \E i \in 1..Len(favs) : favs[i].snippet = s.snippet
       /\ toggleFav(s)

\* the Clear All button: saveFavs([]); saveRecent([])
ClearAll ==
  /\ showSnippet
  /\ favs' = << >>
  /\ recent' = << >>
  /\ Quiet("clear", 0, 0, << >>)
  /\ UNCHANGED << bufVars, uiVars, isComposing, propVars, valVars, histVars, errors,
                  assistVars >>

(* ------------------------------------------------------------------ *)
(* SearchPanel                                                         *)
(* ------------------------------------------------------------------ *)
\* texts the question search box may be given
SearchTexts == { << >>, <<"a">>, <<"b">> }

\* most doSearch calls, made and to come, the exploration follows
MaxSearches == 3

\* what stackapi.searchQuestions answers for a query: its items
searchQuestions(query0) == << [title |-> query0] >>

\* getCachedSearch(query): the entries of the store under that key
getCachedSearch(query0) == { e \in searchCache : e.query = query0 }

\* 1000 * 60 * 60 * 24 * 7
CacheMaxAge == 604800000

\* cached && Date.now() - cached.timestamp <= the week
IsFreshInclusive(cached) == \E e \in cached : now - e.timestamp <= CacheMaxAge

\* cached && Date.now() - cached.timestamp < 1000 * 60 * 60 * 24 * 7
IsFresh(cached) == \E e \in cached : now - e.timestamp < CacheMaxAge

\* setCachedSearch(query, items): db.put, which replaces the entry of the key
setCachedSearch(query0, items) ==
  { e \in searchCache : e.query # query0 }
    \cup { [query |-> query0, items |-> items, timestamp |-> now] }

RemoveAt(seq, i) == SubSeq(seq, 1, i - 1) \o SubSeq(seq, i + 1, Len(seq))

\* SearchPanel.onChange(v): setQ, clear the armed timeout, arm a new one
SearchChange(v) ==
  /\ searchSeq + Len(debounceRef) < MaxSearches
  /\ searchQ' = v
  /\ debounceRef' = << v >>
  /\ UNCHANGED << results, loading, cacheHit, inflight, searchCache, now, searchSeq, applied >>

\* the timeout fires: doSearch(v) up to its first await
SearchTimerFires ==
  /\ debounceRef # << >>
  /\ debounceRef' = << >>
  /\ searchSeq' = searchSeq + 1
  /\ LET query0 == debounceRef[1]
     IN  IF Trim(query0) = << >>
         THEN /\ results' = << >>
              /\ applied' = searchSeq'
              /\ UNCHANGED << loading, inflight >>
         ELSE /\ loading' = TRUE
              /\ inflight' = Append(inflight, [id |-> searchSeq', query |-> query0, at |-> "cache", cached |-> { }])
              /\ UNCHANGED << results, applied >>
  /\ UNCHANGED << searchQ, cacheHit, searchCache, now >>

\* the await of the doSearch call inflight[i] resolves and the call runs to
\* its next await or to its end; ok: the awaited promise fulfils
doSearchResumes(i, ok) ==
  LET call   == inflight[i]
      cached == getCachedSearch(call.query)
  IN  CASE call.at = "cache" /\ ok /\ IsFresh(cached) ->
             /\ results' = (CHOOSE e \in cached : TRUE).items
             /\ applied' = call.id
             /\ cacheHit' = TRUE
             /\ loading' = FALSE
             /\ inflight' = RemoveAt(inflight, i)
             /\ UNCHANGED searchCache
        [] call.at = "cache" /\ ok /\ ~IsFresh(cached) ->
             /\ inflight' = [inflight EXCEPT ![i].at = "net", ![i].cached = cached]
             /\ UNCHANGED << results, applied, cacheHit, loading, searchCache >>
        [] call.at = "net" /\ ok ->
             /\ results' = searchQuestions(call.query)
             /\ applied' = call.id
             /\ cacheHit' = FALSE
             /\ inflight' = [inflight EXCEPT ![i].at = "store"]
             /\ UNCHANGED << loading, searchCache >>
        [] call.at = "store" /\ ok ->
             /\ searchCache' = setCachedSearch(call.query, searchQuestions(call.query))
             /\ loading' = FALSE
             /\ inflight' = RemoveAt(inflight, i)
             /\ UNCHANGED << results, applied, cacheHit >>
        [] ~ok ->
             \* catch: console.error; finally: setLoading(false)
             /\ loading' = FALSE
             /\ inflight' = RemoveAt(inflight, i)
             /\ UNCHANGED << results, applied, cacheHit, searchCache >>

SearchResolves ==
  /\ \E i \in 1..Len(inflight) : \E ok \in BOOLEAN : doSearchResumes(i, ok)
  /\ UNCHANGED << searchQ, debounceRef, searchSeq, now >>

(* ------------------------------------------------------------------ *)
(* The session                                                         *)
(* ------------------------------------------------------------------ *)
\* the state once EditorTabs is mounted: the mount effects have run, the last
\* of them pushHistorySnapshot(latestRef.current copy, true)
Init ==
  /\ project = InitialProject
  /\ html = InitialProject.html
  /\ css = InitialProject.css
  /\ js = InitialProject.js
  /\ latestRef = InitialProject
  /\ latestAlias = 0
  /\ activeTab = "html"
  /\ showSnippet = FALSE
  /\ showDocs = FALSE
  /\ query = << >>
  /\ isComposing = FALSE
  /\ onChangeTimer = FALSE
  /\ propTimers = 0
  /\ validationTimer = "null"
  /\ valTimers = << >>
  /\ undoStack = pushHistorySnapshot(<< >>, << >>, InitialProject, TRUE).undo
  /\ redoStack = << >>
  /\ errors = << >>
  /\ favs = << >>
  /\ recent = << >>
  /\ keyClosure = [favs |-> << >>, recent |-> << >>]
  /\ assistantOpen = FALSE
  /\ assistResult = << >>
  /\ sinkThrows = FALSE
  /\ valWaits = << >>
  /\ sinceRequest = 0
  /\ replacedAt = -1
  /\ armedWith = << >>
  /\ stored = << >>
  /\ quota = FALSE
  /\ reading = << >>
  /\ searchQ = << >>
  /\ results = << >>
  /\ loading = FALSE
  /\ cacheHit = FALSE
  /\ debounceRef = << >>
  /\ inflight = << >>
  /\ searchCache = { }
  /\ now = 0
  /\ searchSeq = 0
  /\ applied = 0
  /\ callArg = [fn |-> "none"]
  /\ callRet = << >>
  /\ op = "mount"
  /\ delivered = 0
  /\ dropped = 0
  /\ recorded = << >>
  /\ preUndo = << >>
  /\ burst = 0
  /\ burstBase = 0

\* useEffect [showSnippet, showDocs, query, activeTab, html, css, js]: the
\* keydown listener is registered anew, over the render's favs and recent
KeyEffect ==
  keyClosure' = IF keyDeps' # keyDeps THEN [favs |-> favs', recent |-> recent'] ELSE keyClosure

AllSnippets == 1..Len(SNIPPETS)

\* what the handlers of the editor proper do not touch
Others == UNCHANGED << asideVars, envVars >>

Rest == UNCHANGED << assistVars, asideVars, envVars >>

Next ==
  \/ (\E v \in TypedTexts : MayType /\ OnChange(v)) /\ KeyEffect /\ Rest
  \/ OnBlur /\ KeyEffect /\ Rest
  \/ onCompositionStart /\ KeyEffect /\ Rest
  \/ onCompositionEnd /\ KeyEffect /\ Rest
  \/ FirePropagation /\ KeyEffect /\ Rest
  \/ FireValidation /\ KeyEffect /\ Rest
  \/ InsertClick(AllSnippets) /\ KeyEffect /\ Rest
  \/ KeyDown(Keys) /\ KeyEffect /\ Rest
  \/ InsertButton /\ KeyEffect /\ Rest
  \/ DocsButton /\ KeyEffect /\ Rest
  \/ DocsClose /\ KeyEffect /\ Rest
  \/ TabClick(TabKeys) /\ KeyEffect /\ Rest

Spec == Init /\ [][Next]_vars

\* a session of edits in the markup buffer: typing, composition, markup
\* snippets, undo and redo, and the propagation timer
NextHistory ==
  \/ (\E v \in TypedTexts : MayType /\ OnChange(v)) /\ KeyEffect /\ Rest
  \/ onCompositionStart /\ KeyEffect /\ Rest
  \/ onCompositionEnd /\ KeyEffect /\ Rest
  \/ FirePropagation /\ KeyEffect /\ Rest
  \/ InsertButton /\ KeyEffect /\ Rest
  \/ InsertClick({1}) /\ KeyEffect /\ Rest
  \/ KeyDown({"mod+z", "mod+shift+z", "mod+y"}) /\ KeyEffect /\ Rest

SpecHistory == Init /\ [][NextHistory]_vars

\* latestRef.current holds the buffers of the last render
LatestIsCurrent == latestRef = Bufs

(* ------------------------------------------------------------------ *)
(* Claims about the history                                            *)
(* ------------------------------------------------------------------ *)
Top(stack) == stack[Len(stack)]

\* C1: an undo that acts, followed at once by a redo, leaves the three
\* buffers as they were just before the undo.
C1_UndoThenRedoRestores ==
  [][(preUndo # << >> /\ op' = "redo") => Bufs' = preUndo[1]]_vars

\* the entries both stacks share before and after a step, position by position
\* (no entry is evicted below HISTORY_LIMIT entries)
KeptUndo == 1..(IF Len(undoStack') < Len(undoStack) THEN Len(undoStack') ELSE Len(undoStack))
KeptRedo == 1..(IF Len(redoStack') < Len(redoStack) THEN Len(redoStack') ELSE Len(redoStack))

\* C3: a snapshot stored on the undo or redo stack keeps the values it was
\* stored with for as long as it stays on the stack.
C3_StoredSnapshotsImmutable ==
  [][ /\ Len(undoStack) < HISTORY_LIMIT => \A k \in KeptUndo : undoStack'[k] = undoStack[k]
      /\ \A k \in KeptRedo : redoStack'[k] = redoStack[k]
      /\ op' = "undo" /\ Len(undoStack') < Len(undoStack) => Top(redoStack') = Top(undoStack)
      /\ op' = "redo" /\ Len(redoStack') < Len(redoStack) => Top(undoStack') = Top(redoStack) ]_vars

\* C7: after every history record, undo and redo the top of the undo stack
\* is the current snapshot.
C7_TopIsCurrent ==
  op \in {"type", "insert", "undo", "redo"} => Top(undoStack) = Bufs

\* C8: once the user pauses after a burst of two or more keystrokes, the
\* burst has added exactly one entry to the undo stack.
C8_OneEntryPerBurst ==
  (op = "propagate" /\ burst = 2) => Len(undoStack) = burstBase + 1

\* C9: an edit during composition sets the buffer to the new text, leaves
\* both stacks as they are and arms no validation timer.
C9_ComposingEditLeavesHistory ==
  [][op' = "compose" =>
       /\ undoStack' = undoStack
       /\ redoStack' = redoStack
       /\ validationTimer' = validationTimer
       /\ valTimers' = valTimers ]_vars

(* ------------------------------------------------------------------ *)
(* Claims about the debounced propagation                              *)
(* ------------------------------------------------------------------ *)
\* a session of typing in all three buffers, with blur and the two timers
NextDebounce ==
  \/ (\E v \in TypedTexts : MayType /\ OnChange(v)) /\ KeyEffect /\ Rest
  \/ OnBlur /\ KeyEffect /\ Rest
  \/ FirePropagation /\ KeyEffect /\ Rest
  \/ FireValidation /\ KeyEffect /\ Rest
  \/ TabClick(TabKeys) /\ KeyEffect /\ Rest

SpecDebounce == Init /\ [][NextDebounce]_vars

\* C4: a keystroke that schedules a propagation while one is pending calls
\* the sink with nothing and leaves exactly one timeout armed; when that
\* timeout fires the sink is called once, with the buffers of the last
\* keystroke, and no timeout is left.
C4_DebounceDeliversLast ==
  [][ /\ (op' = "type" /\ propTimers > 0) =>
           (delivered' = 0 /\ propTimers' = 1 /\ project' = project)
      /\ (op' = "propagate" /\ burst = 2) =>
           (delivered' = 1 /\ propTimers' = 0 /\ project' = Bufs) ]_vars

C4_Witness == op = "propagate" /\ burst = 2 /\ delivered = 1 /\ project = Bufs

(* ------------------------------------------------------------------ *)
(* Claims about the capacity of the history                            *)
(* ------------------------------------------------------------------ *)
\* a long session of typing in the markup buffer, with the two timers
NextCap ==
  \/ (\E v \in TypedTexts : OnChange(v)) /\ KeyEffect /\ Rest
  \/ FirePropagation /\ KeyEffect /\ Rest
  \/ FireValidation /\ KeyEffect /\ Rest

SpecCap == Init /\ [][NextCap]_vars

\* C5: the undo stack never holds more than HISTORY_LIMIT entries; a record
\* onto a full stack drops the oldest entry, keeps the others in order and
\* puts the recorded snapshot on top.
C5_HistoryCapped ==
  /\ [](Len(undoStack) <= HISTORY_LIMIT)
  /\ [][(recorded' # << >> /\ Len(undoStack) = HISTORY_LIMIT) =>
          /\ Len(undoStack') = HISTORY_LIMIT
          /\ SubSeq(undoStack', 1, HISTORY_LIMIT - 1) = Tail(undoStack)
          /\ Top(undoStack') = recorded'[1] ]_vars

\* the stack is full and has lost its two oldest entries
C5_Witness ==
  /\ Len(undoStack) = HISTORY_LIMIT
  /\ recorded # << >>
  /\ undoStack[1].html = << >>

(* ------------------------------------------------------------------ *)
(* Claims about redo after a new edit                                  *)
(* ------------------------------------------------------------------ *)
\* a session of typing, markup snippets, undo and redo
NextRedo ==
  \/ (\E v \in TypedTexts : MayType /\ OnChange(v)) /\ KeyEffect /\ Rest
  \/ InsertButton /\ KeyEffect /\ Rest
  \/ InsertClick({1}) /\ KeyEffect /\ Rest
  \/ KeyDown({"mod+z", "mod+shift+z", "mod+y"}) /\ KeyEffect /\ Rest

SpecRedo == Init /\ [][NextRedo]_vars

\* C6: every record of a new edit leaves the redo stack empty, and a redo
\* right after it changes neither the buffers nor the stacks.
C6_RecordClearsRedo ==
  /\ [](recorded # << >> => redoStack = << >>)
  /\ [][(recorded # << >> /\ redo) => UNCHANGED << html, css, js, histVars >>]_vars

\* a record has discarded redo entries
C6_Witness == recorded # << >> /\ dropped > 0 /\ redoStack = << >>

(* ------------------------------------------------------------------ *)
(* Claims about the panels and snippet insertion                       *)
(* ------------------------------------------------------------------ *)
\* a session with the panels, the tabs and the insertion of style and script
\* snippets, from the list and with Enter
NextPanels ==
  \/ InsertButton /\ KeyEffect /\ Rest
  \/ DocsButton /\ KeyEffect /\ Rest
  \/ DocsClose /\ KeyEffect /\ Rest
  \/ KeyDown({"mod+k", "mod+/", "Escape", "Enter", "shift+Enter"}) /\ KeyEffect /\ Rest
  \/ TabClick(TabKeys) /\ KeyEffect /\ Rest
  \/ InsertClick({2, 3}) /\ KeyEffect /\ Rest

SpecPanels == Init /\ [][NextPanels]_vars

\* C2: inserting a snippet whose target buffer T is not the active one makes
\* T the active buffer and appends the normalized body to T's own text (no
\* selection of T is known, its textarea not being mounted).
C2_CrossTabInsertUsesTarget ==
  [][(op' = "insert" /\ TargetTab(recent'[1].kind) # activeTab) =>
       /\ activeTab' = TargetTab(recent'[1].kind)
       /\ Buf(Bufs', TargetTab(recent'[1].kind))
            = Buf(Bufs, TargetTab(recent'[1].kind)) \o recent'[1].snippet ]_vars

\* C10: the snippets panel and the docs panel are never both open.
C10_PanelsExclusive == ~(showSnippet /\ showDocs)

\* one panel was opened while the other was open
C10_Witness == op = "panel-switch" /\ showDocs /\ ~showSnippet

(* ------------------------------------------------------------------ *)
(* Claims about favorites and recents                                  *)
(* ------------------------------------------------------------------ *)
\* a session in the snippet panel: stars, the assistant, Clear All and the tabs
NextFavs ==
  \/ InsertButton /\ KeyEffect /\ Rest
  \/ TabClick({"html", "css"}) /\ KeyEffect /\ Rest
  \/ ToggleAssistant /\ KeyEffect /\ Others
  \/ runAssistantGenerate /\ KeyEffect /\ Others
  \/ AssistInsert /\ KeyEffect /\ Others
  \/ StarClick({2}) /\ KeyEffect /\ Others
  \/ ClearAll /\ KeyEffect /\ Others

SpecFavs == Init /\ [][NextFavs]_vars

\* C11: the favorites hold at most FavLimit entries and no two entries with
\* the same body.
C11_FavsCappedAndDistinct ==
  /\ Len(favs) <= FavLimit
  /\ \A i, j \in 1..Len(favs) : favs[i].snippet = favs[j].snippet => i = j

\* a session of snippet insertions from the list and with Enter, with Clear
\* All and the tabs
NextRecents ==
  \/ InsertButton /\ KeyEffect /\ Rest
  \/ TabClick({"html", "css"}) /\ KeyEffect /\ Rest
  \/ InsertClick({2, 3}) /\ KeyEffect /\ Rest
  \/ KeyDown({"Enter", "shift+Enter"}) /\ KeyEffect /\ Rest
  \/ ClearAll /\ KeyEffect /\ Rest

SpecRecents == Init /\ [][NextRecents]_vars

\* the recents without the entries of a body
WithoutBody(list, body) == SelectSeq(list, LAMBDA r : r.snippet # body)

\* C12: after a snippet insertion the recents are the inserted body, then
\* the entries the list had before that have another body, in their order,
\* cut to 8 entries; no two entries have the same body.
C12_RecentsAfterInsert ==
  [][op' = "insert" =>
       LET body   == recent'[1].snippet
           merged == << recent'[1] >> \o WithoutBody(recent, body)
       IN  /\ Includes(Buf(Bufs', TargetTab(recent'[1].kind)), body)
           /\ recent' = SubSeq(merged, 1, IF Len(merged) < 8 THEN Len(merged) ELSE 8)
           /\ \A i, j \in 1..Len(recent') : recent'[i].snippet = recent'[j].snippet => i = j
           /\ Len(recent') <= 8 ]_vars

(* ------------------------------------------------------------------ *)
(* Claims about the question search                                    *)
(* ------------------------------------------------------------------ *)
NextSearch ==
  \/ (\E v \in SearchTexts : SearchChange(v)) /\ UNCHANGED << editorVars, callVars, storeVars >>
  \/ SearchTimerFires /\ UNCHANGED << editorVars, callVars, storeVars >>
  \/ SearchResolves /\ UNCHANGED << editorVars, callVars, storeVars >>

SpecSearch == Init /\ [][NextSearch]_vars

\* C13: the result list is only ever set by the newest doSearch call: a
\* response of an older call does not replace what a newer call (also one
\* with an empty query) has set or will set.
C13_NoStaleResults ==
  [][applied' # applied => applied' = searchSeq']_vars

(* ------------------------------------------------------------------ *)
(* Claims about the two timers                                         *)
(* ------------------------------------------------------------------ *)
NextTimers ==
  \/ (\E v \in TypedTexts : MayType /\ OnChange(v)) /\ KeyEffect /\ Rest
  \/ OnBlur /\ KeyEffect /\ Rest
  \/ FirePropagation /\ KeyEffect /\ Rest
  \/ FireValidation /\ KeyEffect /\ Rest
  \/ InsertButton /\ KeyEffect /\ Rest
  \/ InsertClick({1}) /\ KeyEffect /\ Rest
  \/ KeyDown({"mod+z", "mod+shift+z"}) /\ KeyEffect /\ Rest

SpecTimers == Init /\ [][NextTimers]_vars

\* C14: at most one propagation timeout and at most one validation timeout
\* are armed in every reachable state: a schedule request made while a
\* timeout of its channel is armed replaces that timeout.
C14_OneTimerPerChannel ==
  /\ propTimers <= 1
  /\ Len(valTimers) <= 1

\* a second keystroke of a burst: both channels had a timeout armed when the
\* keystroke scheduled again
C14_Witness == op = "type" /\ burst = 2 /\ propTimers = 1 /\ Len(valTimers) = 1

\* C15: a flush (blur, snippet insertion, undo, redo) calls the sink exactly
\* once within the handler, with the three buffers as the handler leaves
\* them, and leaves no propagation timeout armed.
C15_FlushDeliversNow ==
  [][op' \in {"blur", "insert", "undo", "redo"} =>
       /\ delivered' = 1
       /\ project' = Bufs'
       /\ propTimers' = 0
       /\ ~onChangeTimer' ]_vars

\* the textarea was left after the text was changed, and the parent holds the changed text
C15_Witness ==
  /\ op = "blur" /\ delivered = 1
  /\ project = Bufs /\ project # InitialProject
  /\ propTimers = 0

(* ------------------------------------------------------------------ *)
(* Claims about a sink that throws                                     *)
(* ------------------------------------------------------------------ *)
\* the parent's onChange starts to throw
SinkBreaks ==
  /\ ~sinkThrows
  /\ sinkThrows' = TRUE
  /\ UNCHANGED << coreVars, valWaits, sinceRequest, replacedAt, armedWith, asideVars >>

NextSink ==
  \/ (\E v \in TypedTexts : MayType /\ OnChange(v)) /\ KeyEffect /\ Rest
  \/ OnBlur /\ KeyEffect /\ Rest
  \/ FirePropagation /\ KeyEffect /\ Rest
  \/ InsertButton /\ KeyEffect /\ Rest
  \/ InsertClick({1}) /\ KeyEffect /\ Rest
  \/ KeyDown({"mod+z", "mod+shift+z"}) /\ KeyEffect /\ Rest
  \/ SinkBreaks

SpecSink == Init /\ [][NextSink]_vars

\* the handler that ran last called a sink that throws
SinkFailed == sinkThrows /\ delivered = 1

\* C16: a delivery to a sink that throws changes nothing but the timer slot:
\* after a debounced delivery or a blur the buffers, both stacks and the
\* panel state are as before; after an insertion, undo or redo they are
\* what the handler sets; the parent keeps its project, no propagation
\* timeout stays armed, and typing, blur and undo stay enabled.
C16_SinkFailureSwallowed ==
  /\ [][(sinkThrows /\ sinkThrows' /\ delivered' = 1) =>
          /\ project' = project
          /\ propTimers' = 0 /\ ~onChangeTimer'
          /\ op' \in {"propagate", "blur"} =>
                (Bufs' = Bufs /\ undoStack' = undoStack /\ redoStack' = redoStack
                   /\ uiVars' = uiVars)
          /\ op' \in {"undo", "redo"} => Bufs' = undoStack'[Len(undoStack')]
          /\ op' = "insert" => (recorded' = << Bufs' >> /\ undoStack'[Len(undoStack')] = Bufs') ]_vars
  /\ [](SinkFailed =>
          /\ ENABLED (\E v \in TypedTexts : OnChange(v))
          /\ ENABLED OnBlur
          /\ ENABLED undo /\ ENABLED redo)

\* a snippet was inserted after a debounced delivery failed, and the parent
\* still holds the project of the mount
C16_Witness ==
  /\ SinkFailed /\ op = "insert"
  /\ project = InitialProject /\ Bufs # InitialProject
  /\ Len(undoStack) = 3

(* ------------------------------------------------------------------ *)
(* Claims about undo and redo at the ends of the history               *)
(* ------------------------------------------------------------------ *)
\* C17: undo() changes something only when the undo stack holds more than
\* one entry and redo() only when the redo stack holds an entry (else
\* buffers, stacks and sink are untouched), and the undo stack holds at
\* least one entry in every reachable state.
C17_UndoRedoAtTheEnds ==
  /\ [](Len(undoStack) >= 1)
  /\ [][ /\ op' = "undo" => Len(undoStack) > 1
         /\ op' = "redo" => redoStack # << >> ]_vars

\* undo has taken the stack down to its last entry: the next undo is the no-op
C17_Witness == op = "undo" /\ Len(undoStack) = 1 /\ redoStack # << >> /\ Bufs = undoStack[1]

(* ------------------------------------------------------------------ *)
(* Claims about the validation pass                                    *)
(* ------------------------------------------------------------------ *)
\* texts typed into a textarea, one of them with a finding of validateCSS
ValidationTexts == { << >>, <<"{">> }

NextValidate ==
  \/ (\E v \in ValidationTexts : MayType /\ OnChange(v)) /\ KeyEffect /\ Rest
  \/ OnBlur /\ KeyEffect /\ Rest
  \/ FireValidation /\ KeyEffect /\ Rest
  \/ TabClick(TabKeys) /\ KeyEffect /\ Rest

SpecValidate == Init /\ [][NextValidate]_vars

\* C18: a validation pass sets the diagnostics to the findings of
\* validateHTML, validateCSS and validateJS for the three buffers as they
\* are, in that order, cut to 6 entries, whatever the list held before.
C18_PassReportsAllBuffers ==
  [][op' = "validate" =>
       /\ \E throws \in JsParserOutcomes(Bufs.js) :
            errors' = validationPass(Null, Bufs, throws)
       /\ Len(errors') <= 6 ]_vars

(* ------------------------------------------------------------------ *)
(* Claims about the quiet period of the validation                     *)
(* ------------------------------------------------------------------ *)
\* window.setTimeout(..., 600) of scheduleValidation
ValidationDelay == 600

\* the step by which time is followed
Quantum == 200

Min(a, b) == IF a < b THEN a ELSE b

\* a handler that called scheduleValidation: the timeouts it left armed keep
\* their age, the one it armed starts at 0
Armed ==
  /\ valWaits' = SubSeq(valWaits, 1, Len(valTimers') - 1) \o << 0 >>
  /\ sinceRequest' = 0
  /\ replacedAt' = IF valTimers # << >> THEN valWaits[Len(valWaits)] ELSE -1
  /\ UNCHANGED << sinkThrows, armedWith, assistVars, asideVars >>

\* time passes, up to the moment the oldest armed timeout is due
Tick ==
  /\ valTimers # << >>
  /\ Head(valWaits) < ValidationDelay
  /\ LET d == Min(Quantum, ValidationDelay - Head(valWaits))
     IN  /\ valWaits' = [i \in 1..Len(valWaits) |-> valWaits[i] + d]
         /\ sinceRequest' = Min(sinceRequest + d, ValidationDelay)
  /\ UNCHANGED << coreVars, sinkThrows, replacedAt, armedWith, asideVars >>

\* the oldest validation timeout fires when it has waited the delay
ValidationDue ==
  /\ valWaits # << >>
  /\ Head(valWaits) = ValidationDelay
  /\ FireValidation
  /\ valWaits' = Tail(valWaits)
  /\ UNCHANGED << sinkThrows, sinceRequest, replacedAt, armedWith, assistVars, asideVars >>

NextQuiet ==
  \/ (\E v \in ValidationTexts : MayType /\ OnChange(v)) /\ KeyEffect /\ Armed
  \/ OnBlur /\ KeyEffect /\ Armed
  \/ TabClick({"html", "css"}) /\ KeyEffect /\ Rest
  \/ Tick
  \/ ValidationDue /\ KeyEffect

SpecQuiet == Init /\ [][NextQuiet]_vars

\* C19: a validation pass runs only when 600 units have passed since the
\* last request, and it is the only one for the requests before it: the one
\* timeout armed is as old as the last request and none is left after the pass.
C19_ValidationDebounced ==
  [][ /\ Len(valTimers') < Len(valTimers) =>
           (sinceRequest = ValidationDelay /\ valTimers' = << >>)
      /\ valTimers' # << >> => valWaits' = << sinceRequest' >> ]_vars

\* a pass ran after a request had replaced a timeout that was part-way
\* through its delay
C19_Witness ==
  /\ op = "validate" /\ valTimers = << >>
  /\ replacedAt > 0 /\ replacedAt < ValidationDelay
  /\ sinceRequest = ValidationDelay

\* C20: a request to validate a buffer made while a timeout for another
\* buffer is armed leaves that timeout armed, so that the other buffer is
\* validated too.
C20_QuietPeriodPerBuffer ==
  [][ (sinceRequest' = 0 /\ op' \in {"type", "blur", "insert"}
         /\ valTimers # << >> /\ valTimers'[Len(valTimers')] # valTimers[1]) =>
        \E i \in 1..Len(valTimers') : valTimers'[i] = valTimers[1] ]_vars

(* ------------------------------------------------------------------ *)
(* Claims about validateCSS                                            *)
(* ------------------------------------------------------------------ *)
\* longest text of braces given to validateCSS
MaxCssLen == 7

\* longest text of letters given to validateCSS
MaxWordLen == 3

TextsOver(alphabet, n) == UNION { [1..k -> alphabet] : k \in 0..n }

CssExamples ==
  { <<"a","{","b","{","c","}">>, <<"a","}","}","}","}","}","}","}">>,
    <<"B","E","M","_","_","B","l","o","c","k">> }

CssTexts ==
  TextsOver({"{", "}"}, MaxCssLen) \cup TextsOver({"A", "B", "a", "_", " "}, MaxWordLen)
    \cup CssExamples

validateCSSCall ==
  /\ callArg.fn = "none"
  /\ \E str \in CssTexts :
       /\ callArg' = [fn |-> "validateCSS", str |-> str]
       /\ callRet' = validateCSS(str)
  /\ UNCHANGED << editorVars, searchVars, storeVars >>

NextCss == validateCSSCall

SpecCss == Init /\ [][NextCss]_vars

\* the number of ch among the first n characters of str
Count(str, ch, n) == Cardinality({ k \in 1..n : str[k] = ch })

OfLevel(ds, level) == SelectSeq(ds, LAMBDA d : d.level = level)

\* C21: the brace check of validateCSS gives "Unexpected '}'" alone when
\* some prefix of the text holds more than 5 more '}' than '{', else
\* "Missing closing '}'" alone when the text holds more '{' than '}', else
\* no error.
C21_BraceCheck ==
  callArg.fn = "validateCSS" =>
    LET str        == callArg.str
        unexpected == \E n \in 1..Len(str) : Count(str, "}", n) - Count(str, "{", n) > 5
        missing    == Count(str, "{", Len(str)) > Count(str, "}", Len(str))
    IN  OfLevel(callRet, "error") =
          IF unexpected THEN << Diag("error", "Unexpected '}'") >>
          ELSE IF missing THEN << Diag("error", "Missing closing '}'") >>
          ELSE << >>

\* the two texts the specification names, with the error of each
C21_Witness ==
  \/ /\ callArg = [fn |-> "validateCSS", str |-> <<"a","}","}","}","}","}","}","}">>]
     /\ callRet = << Diag("error", "Unexpected '}'") >>
  \/ /\ callArg = [fn |-> "validateCSS", str |-> <<"a","{","b","{","c","}">>]
     /\ callRet = << Diag("error", "Missing closing '}'") >>

HasUpperRun(str) == \E i \in 1..(Len(str) - 1) : IsUpper(str[i]) /\ IsUpper(str[i + 1])

\* C22: validateCSS gives one warning when the text holds two or more
\* upper-case letters in a row anywhere, and none otherwise.
C22_UppercaseWarning ==
  callArg.fn = "validateCSS" =>
    Len(OfLevel(callRet, "warning")) = IF HasUpperRun(callArg.str) THEN 1 ELSE 0

(* ------------------------------------------------------------------ *)
(* Claims about getFilteredSnippets                                    *)
(* ------------------------------------------------------------------ *)
\* entries the favorites may hold
FavEntries ==
  { [label |-> <<"F","x">>, kind |-> "css",  snippet |-> <<"z">>,     description |-> <<"r">>],
    [label |-> <<"m">>,     kind |-> "html", snippet |-> <<"f","x">>, description |-> <<"n">>],
    [label |-> <<"f">>,     kind |-> "css",  snippet |-> <<"x">>,     description |-> <<"r">>],
    [label |-> <<"k">>,     kind |-> "js",   snippet |-> <<"f","x">>, description |-> <<"t">>],
    [label |-> <<"w">>,     kind |-> "all",  snippet |-> <<"x">>,     description |-> <<"d">>] }

\* longest list of favorites given to getFilteredSnippets
MaxFavList == 2

\* texts of the snippet search box
Queries == { << >>, <<"f">>, <<"f","x">>, <<"F"," ">>, <<"x">> }

getFilteredSnippetsCall ==
  /\ callArg.fn = "none"
  /\ \E q0 \in Queries, tab \in TabKeys, favList \in TextsOver(FavEntries, MaxFavList) :
       /\ callArg' = [fn |-> "getFilteredSnippets", query |-> q0, activeTab |-> tab, favs |-> favList]
       /\ callRet' = getFilteredSnippets(q0, tab, favList)
  /\ UNCHANGED << editorVars, searchVars, storeVars >>

NextFilter == getFilteredSnippetsCall

SpecFilter == Init /\ [][NextFilter]_vars

\* C23: the result of a search is made of the pool entries that pass (all
\* of them for an empty query, those scoring more than 5 otherwise), of each
\* body the entry that comes first by descending score and then by pool
\* order, and these in that same order.
C23_FilterSortDedupe ==
  callArg.fn = "getFilteredSnippets" =>
    LET pool       == SNIPPETS \o callArg.favs
        q          == ToLower(Trim(callArg.query))
        sc(i)      == Score(pool[i], q, callArg.activeTab, callArg.favs)
        passes(i)  == q = << >> \/ sc(i) > 5
        before(i, j) == sc(i) > sc(j) \/ (sc(i) = sc(j) /\ i < j)
        passing    == { i \in 1..Len(pool) : passes(i) }
        kept       == { i \in passing :
                          \A j \in passing : pool[j].snippet = pool[i].snippet /\ j # i => before(i, j) }
        rank(i)    == Cardinality({ j \in kept : before(j, i) }) + 1
    IN  /\ Len(callRet) = Cardinality(kept)
        /\ \A i \in kept : callRet[rank(i)] = pool[i]

\* a search with a query in which two pool entries of one body pass and the
\* one further back in the pool scores higher
C23_Witness ==
  /\ callArg.fn = "getFilteredSnippets"
  /\ callArg.query = <<"f","x">> /\ callArg.activeTab = "js" /\ Len(callArg.favs) = 2
  /\ callArg.favs[1].kind = "html" /\ callArg.favs[2].kind = "js"
  /\ callRet[1] = callArg.favs[2]
  /\ \A i \in 1..Len(callRet) : callRet[i] # callArg.favs[1]

\* an entry of the active tab's kind whose label starts with the query
LabelHit(s) ==
  /\ s.kind = callArg.activeTab
  /\ StartsWith(ToLower(s.label), ToLower(Trim(callArg.query)))

\* an entry of another tab's kind that holds the query in its body only
BodyHit(s) ==
  /\ s.kind \in TabKeys \ {callArg.activeTab}
  /\ Includes(ToLower(s.snippet), ToLower(Trim(callArg.query)))
  /\ ~Includes(ToLower(s.label \o <<" ">> \o s.description), ToLower(Trim(callArg.query)))

\* C24: for a query that is not empty, a result of the active tab's kind
\* whose label starts with the query comes before every result of another
\* tab's kind that holds the query in its body only.
C24_LabelHitAboveBodyHit ==
  (callArg.fn = "getFilteredSnippets" /\ Trim(callArg.query) # << >>) =>
    \A i, j \in 1..Len(callRet) :
      (LabelHit(callRet[i]) /\ BodyHit(callRet[j])) => i < j

C24_Witness ==
  /\ callArg.fn = "getFilteredSnippets" /\ callArg.query = <<"F"," ">> /\ callArg.activeTab = "css"
  /\ \E i, j \in 1..Len(callRet) :
       /\ i < j /\ LabelHit(callRet[i]) /\ BodyHit(callRet[j])
       /\ callRet[i].label = <<"F","x">> /\ callRet[j].snippet = <<"f","x">>

(* ------------------------------------------------------------------ *)
(* Claims about normalizeSnippetForBeginners                           *)
(* ------------------------------------------------------------------ *)
\* the pieces the bodies given to normalizeSnippetForBeginners are made of
Tokens ==
  { <<"<","b","r",">">>, <<"<","/","b","r",">">>, <<"<","p",">">>, <<"<","/","p",">">>,
    <<"x">>, <<"\n">> }

\* most pieces in a body
MaxTokens == 4

RECURSIVE Flatten(_)
Flatten(ts) == IF ts = << >> THEN << >> ELSE Head(ts) \o Flatten(Tail(ts))

ImgExample == <<"<","i","m","g"," ","s","r","c","=","'","a","'",">">>

Bodies == { Flatten(ts) : ts \in TextsOver(Tokens, MaxTokens) } \cup { ImgExample }

normalizeCall ==
  /\ callArg.fn = "none"
  /\ \E body \in Bodies, kind \in SnipKinds :
       /\ callArg' = [fn |-> "normalize", snippet |-> body, kind |-> kind]
       /\ callRet' = normalizeSnippetForBeginners(body, kind)
  /\ UNCHANGED << editorVars, searchVars, storeVars >>

NextNormalize == normalizeCall

SpecNormalize == Init /\ [][NextNormalize]_vars

\* s opens with the tag <t ...> (any case), not closed by "/>": the 0-based
\* offset of its ">" in a one-element set, else the empty set
OpensWith(s, t) ==
  LET pat == <<"<">> \o t
      gts == { j \in Len(pat)..(Len(s) - 1) : s[j + 1] = ">" }
  IN  IF MatchAt(s, pat, 0, TRUE) /\ gts # {}
         /\ (s[Len(pat) + 1] = ">" \/ IsSpace(s[Len(pat) + 1]))
         /\ s[Least(gts)] # "/"
      THEN { Least(gts) }
      ELSE { }

\* C25: a markup body that opens with a void element written without the
\* self-closing slash comes back opening with that tag, its attributes and
\* " />", and holds no closing tag of that element.
C25_VoidElementSelfClosed ==
  (callArg.fn = "normalize" /\ callArg.kind = "html") =>
    \A k \in 1..Len(voidTags) :
      LET t == voidTags[k]
          s == Trim(callArg.snippet)
      IN  \A j \in OpensWith(s, t) :
            /\ MatchAt(callRet, <<"<">> \o t \o Slice(s, Len(t) + 1, j) \o <<" ","/",">">>, 0, FALSE)
            /\ \A i \in 0..Len(callRet) : ~MatchAt(callRet, <<"<","/">> \o t \o <<">">>, i, TRUE)

\* the example of the specification, and a body with a closing tag of its void element
C25_Witness ==
  \/ /\ callArg = [fn |-> "normalize", snippet |-> ImgExample, kind |-> "html"]
     /\ callRet = <<"<","i","m","g"," ","s","r","c","=","'","a","'"," ","/",">","\n">>
  \/ /\ callArg = [fn |-> "normalize", snippet |-> <<"<","b","r",">","<","/","b","r",">">>, kind |-> "html"]
     /\ callRet = <<"<","b","r"," ","/",">","\n">>

\* C26: for the kinds css, js and all normalizeSnippetForBeginners returns
\* the body it was given, so that a second application changes nothing.
C26_OtherKindsUnchanged ==
  (callArg.fn = "normalize" /\ callArg.kind # "html") =>
    /\ callRet = callArg.snippet
    /\ normalizeSnippetForBeginners(callRet, callArg.kind) = callRet

\* a style body that the markup rules would have changed
C26_Witness ==
  /\ callArg.fn = "normalize" /\ callArg.kind = "css"
  /\ callArg.snippet = <<"\n","x">> /\ callRet = <<"\n","x">>

\* C27: the result for a markup body ends with one newline and no more; a
\* body that opens with an element that is not void gets one closing tag of
\* that element appended when it does not end with it, and none when it does.
C27_ClosingTagAndNewline ==
  (callArg.fn = "normalize" /\ callArg.kind = "html") =>
    LET s   == Trim(callArg.snippet)
        tag == OpeningTag(s)
        closing == <<"<","/">> \o tag \o <<">">>
    IN  /\ EndsWith(callRet, <<"\n">>) /\ ~EndsWith(callRet, <<"\n","\n">>)
        /\ (tag # << >> /\ tag \notin Range(voidTags)) =>
             IF HasClosingAtEnd(s, tag)
             THEN callRet = VoidLoop(s, 1) \o <<"\n">>
             ELSE callRet = VoidLoop(s, 1) \o <<"\n">> \o closing \o <<"\n">>

(* ------------------------------------------------------------------ *)
(* Claims about what an insertion records and delivers                 *)
(* ------------------------------------------------------------------ *)
NextInsert ==
  \/ (\E v \in TypedTexts : MayType /\ OnChange(v)) /\ KeyEffect /\ Rest
  \/ FirePropagation /\ KeyEffect /\ Rest
  \/ TabClick({"html", "css"}) /\ KeyEffect /\ Rest
  \/ InsertButton /\ KeyEffect /\ Rest
  \/ InsertClick({1, 2}) /\ KeyEffect /\ Rest

SpecInsert == Init /\ [][NextInsert]_vars

\* C28: a snippet insertion leaves the two buffers that are not its target
\* as they were, in the buffers themselves, in the snapshot it records in
\* the history and in the snapshot it delivers to the sink.
C28_InsertTouchesTargetOnly ==
  [][op' = "insert" =>
       \A f \in TabKeys \ { TargetTab(recent'[1].kind) } :
         /\ Bufs'[f] = Bufs[f]
         /\ recorded'[1][f] = Bufs[f]
         /\ delivered' = 1 /\ project'[f] = Bufs[f] ]_vars

\* a snippet was inserted into the markup buffer after the style buffer was
\* typed into
C28_Witness ==
  /\ op = "insert" /\ recent # << >> /\ recent[1].kind = "html"
  /\ css # InitialProject.css /\ js = InitialProject.js /\ html # InitialProject.html
  /\ recorded = << Bufs >> /\ project = Bufs

\* C29: a snippet insertion adds one entry to the undo stack and leaves the
\* entries below it as they were, the new entry being the buffers after the
\* insertion; it empties the redo stack, calls the sink once with those
\* buffers within the handler and leaves no propagation timeout armed.
C29_InsertRecordsAndFlushes ==
  [][op' = "insert" =>
       /\ Len(undoStack') = Len(undoStack) + 1
       /\ SubSeq(undoStack', 1, Len(undoStack)) = undoStack
       /\ undoStack'[Len(undoStack')] = Bufs'
       /\ redoStack' = << >>
       /\ delivered' = 1 /\ project' = Bufs'
       /\ propTimers' = 0 /\ ~onChangeTimer' ]_vars

(* ------------------------------------------------------------------ *)
(* Claims about what a timeout reads when it fires                     *)
(* ------------------------------------------------------------------ *)
\* texts of the files imported
ImportTexts == { <<"i">> }

\* a handler ran: the buffers a keystroke armed the propagation timeout with
Noting ==
  /\ armedWith' = IF op' = "type" THEN << Bufs' >> ELSE armedWith
  /\ UNCHANGED << sinkThrows, valWaits, sinceRequest, replacedAt, assistVars, asideVars >>

NextFiring ==
  \/ (\E v \in TypedTexts : MayType /\ OnChange(v)) /\ KeyEffect /\ Noting
  \/ onCompositionStart /\ KeyEffect /\ Noting
  \/ onCompositionEnd /\ KeyEffect /\ Noting
  \/ (\E txt \in ImportTexts : importCssFileLocal(txt)) /\ KeyEffect /\ Noting
  \/ FirePropagation /\ KeyEffect /\ Noting
  \/ FireValidation /\ KeyEffect /\ Noting

SpecFiring == Init /\ [][NextFiring]_vars

\* C30: the propagation timeout delivers, and the validation timeout
\* validates, the three buffers as they are when it fires, whatever they
\* were when it was armed.
C30_TimersReadCurrentBuffers ==
  [][ /\ op' = "propagate" => (delivered' = 1 /\ project' = Bufs)
      /\ op' = "validate" =>
           \E throws \in JsParserOutcomes(Bufs.js) :
             errors' = validationPass(Head(valTimers), Bufs, throws) ]_vars

\* the propagation timeout delivered buffers other than those it was armed with
C30_Witness ==
  /\ op = "propagate" /\ delivered = 1
  /\ armedWith # << >> /\ armedWith[1] # project
  /\ project = Bufs

(* ------------------------------------------------------------------ *)
(* Claims about imported project files                                 *)
(* ------------------------------------------------------------------ *)
\* the files imported: unparsable text, an object with none of the fields,
\* a flat object with one field, a code record of three strings, a code
\* record lacking two fields, a code record with a number, a code value
\* with no fields at all
JsonFiles ==
  { Unparsable,
    Json(<< >>, Undefined, Undefined, Undefined),
    Json(<< >>, <<"i">>, Undefined, Undefined),
    Json(<< Snap(<<"i">>, <<"c">>, <<"j">>) >>, Undefined, Undefined, Undefined),
    Json(<< Snap(<<"i">>, Undefined, Undefined) >>, Undefined, Undefined, Undefined),
    Json(<< Snap(NumberValue, <<"c">>, <<"j">>) >>, Undefined, Undefined, Undefined),
    Json(<< Snap(Undefined, Undefined, Undefined) >>, Undefined, Undefined, Undefined) }

\* a session of typing, undo and redo, with project files imported
NextImport ==
  \/ (\E v \in TypedTexts : MayType /\ OnChange(v)) /\ KeyEffect /\ Rest
  \/ FirePropagation /\ KeyEffect /\ Rest
  \/ KeyDown({"mod+z", "mod+shift+z"}) /\ KeyEffect /\ Rest
  \/ (\E parsed \in JsonFiles : importJsonFileLocal(parsed)) /\ KeyEffect /\ Rest

SpecImport == Init /\ [][NextImport]_vars

\* the three fields of a snapshot are strings
AllStrings(snap) == \A f \in TabKeys : IsString(snap[f])

\* C31: the fields of the current snapshot, of every snapshot on the undo and
\* redo stacks and of every snapshot delivered to the sink are strings.
C31_FieldsAreStrings ==
  /\ AllStrings(Bufs)
  /\ \A k \in 1..Len(undoStack) : AllStrings(undoStack[k])
  /\ \A k \in 1..Len(redoStack) : AllStrings(redoStack[k])
  /\ delivered = 1 => AllStrings(project)

\* the file has an expected shape: a flat object with one of the fields, or
\* a code record of three strings
ExpectedShape(parsed) ==
  /\ parsed.parses
  /\ IF parsed.code # << >>
     THEN AllStrings(parsed.code[1])
     ELSE Truthy(parsed.html) \/ Truthy(parsed.css) \/ Truthy(parsed.js)

\* C32: the import of a file that has no expected shape leaves the stored
\* project and the three buffers as they were.
C32_BadImportAborts ==
  [][ \A parsed \in JsonFiles :
        (~ExpectedShape(parsed) /\ importJsonFileLocal(parsed)) =>
          (project' = project /\ Bufs' = Bufs) ]_vars

(* ------------------------------------------------------------------ *)
(* Claims about saving the project                                     *)
(* ------------------------------------------------------------------ *)
\* a handler ran: what localStorage holds after it, save having been called
\* by a delivery to the sink or by an import
Storing ==
  /\ stored' = IF delivered' = 1 THEN saveStores(latestRef, stored)
               ELSE IF op' = "import" THEN saveStores(project', stored)
               ELSE stored
  /\ UNCHANGED << quota, reading, assistVars, searchVars, callVars, envVars >>

\* localStorage runs out of room, or gets room again
QuotaChanges ==
  /\ quota' = ~quota
  /\ UNCHANGED << editorVars, searchVars, callVars, stored, reading >>

\* a session of typing with blur, the propagation timeout and imported CSS
\* files, localStorage failing at times
NextStorage ==
  \/ (\E v \in TypedTexts : MayType /\ OnChange(v)) /\ KeyEffect /\ Storing
  \/ OnBlur /\ KeyEffect /\ Storing
  \/ FirePropagation /\ KeyEffect /\ Storing
  \/ (\E txt \in ImportTexts : importCssFileLocal(txt)) /\ KeyEffect /\ Storing
  \/ QuotaChanges

SpecStorage == Init /\ [][NextStorage]_vars

\* C33: when localStorage.setItem fails, a call of save still makes the
\* snapshot it was given the in-memory project, and the buffers stay as they
\* are.
C33_SaveSurvivesStorageFailure ==
  [][ /\ (quota /\ delivered' = 1) =>
           (project' = latestRef /\ Bufs' = Bufs /\ stored' = stored)
      /\ (quota /\ op' = "import") =>
           (project'.css \in ImportTexts /\ project'.html = project.html
              /\ project'.js = project.js /\ stored' = stored) ]_vars

\* a typed text was delivered while localStorage was failing
C33_Witness ==
  /\ quota /\ op = "propagate" /\ delivered = 1
  /\ project = Bufs /\ project # InitialProject
  /\ stored # << project >>

(* ------------------------------------------------------------------ *)
(* Claims about the age of cached searches                             *)
(* ------------------------------------------------------------------ *)
\* the clock moves in steps of half the week
ClockStep == 302400000

\* the steps the clock makes
MaxClock == 3

\* time passes
ClockAdvances ==
  /\ now < MaxClock * ClockStep
  /\ now' = now + ClockStep
  /\ UNCHANGED << searchQ, results, loading, cacheHit, debounceRef, inflight, searchCache,
                  searchSeq, applied >>

\* the queries typed into the search box
CacheQueries == { <<"a">> }

\* searches of one query, over one week and a half
NextCache ==
  \/ (\E v \in CacheQueries : SearchChange(v)) /\ UNCHANGED << editorVars, callVars, storeVars >>
  \/ SearchTimerFires /\ UNCHANGED << editorVars, callVars, storeVars >>
  \/ SearchResolves /\ UNCHANGED << editorVars, callVars, storeVars >>
  \/ ClockAdvances /\ UNCHANGED << editorVars, callVars, storeVars >>

SpecCache == Init /\ [][NextCache]_vars

\* C34: a doSearch call takes its results from the cache only when the
\* entry is younger than 604,800,000 ms; with an entry of that age or older
\* it calls the remote search, and what it stores replaces the entry of the
\* query with the fresh items and the time of the store.
C34_CacheEntryExpires ==
  [][ \A i \in 1..Len(inflight) :
        LET call == inflight[i]
            old  == getCachedSearch(call.query)
        IN  /\ (call.at = "cache" /\ doSearchResumes(i, TRUE)) =>
                 IF \E e \in old : now - e.timestamp < 604800000
                 THEN cacheHit' /\ results' = (CHOOSE e \in old : TRUE).items
                      /\ searchCache' = searchCache
                 ELSE Len(inflight') = Len(inflight) /\ inflight'[i].at = "net"
            /\ (call.at = "store" /\ doSearchResumes(i, TRUE)) =>
                 /\ Cardinality({ e \in searchCache' : e.query = call.query }) = 1
                 /\ \A e \in searchCache' : e.query = call.query =>
                      (e.items = searchQuestions(call.query) /\ e.timestamp = now) ]_vars

\* a call found an entry one week old or older, has called the remote search
\* and is about to store what it returned
C34_Witness ==
  \E i \in 1..Len(inflight) :
    /\ inflight[i].at = "store"
    /\ \E e \in inflight[i].cached : now - e.timestamp >= 604800000
    /\ ~cacheHit
    /\ results = searchQuestions(inflight[i].query)

(* ------------------------------------------------------------------ *)
(* Claims about shortcuts during a composition                         *)
(* ------------------------------------------------------------------ *)
\* a session of typing and composition with the panels and the shortcuts of
\* the panels, the style buffer, undo and redo
NextKeys ==
  \/ (\E v \in TypedTexts : MayType /\ OnChange(v)) /\ KeyEffect /\ Rest
  \/ onCompositionStart /\ KeyEffect /\ Rest
  \/ onCompositionEnd /\ KeyEffect /\ Rest
  \/ InsertButton /\ KeyEffect /\ Rest
  \/ KeyDown({"mod+k", "Escape", "alt+2", "mod+z", "mod+shift+z"}) /\ KeyEffect /\ Rest

SpecKeys == Init /\ [][NextKeys]_vars

\* what no shortcut may touch during a composition
Shortcuttable == << showSnippet, showDocs, activeTab, html, css, js, undoStack, redoStack >>

\* C35: while a composition is going on no key event changes the panels,
\* the active buffer, the buffers or the two stacks.
C35_NoShortcutWhileComposing ==
  isComposing =>
    \A key \in Keys :
      ~ENABLED (onKey(key) /\ KeyEffect /\ Rest /\ Shortcuttable' # Shortcuttable)

\* a composition is going on with the snippet panel open, something to undo
\* and something to redo
C35_Witness ==
  /\ isComposing /\ showSnippet
  /\ Len(undoStack) > 1 /\ redoStack # << >>
  /\ op = "compose"

(* ------------------------------------------------------------------ *)
(* Claims about imported style and script files                        *)
(* ------------------------------------------------------------------ *)
\* a file import started or ended
Reading == UNCHANGED << assistVars, searchVars, callVars, envVars, stored, quota >>

\* a session of typing in the markup buffer with the propagation timeout,
\* a style or script file being imported
NextReading ==
  \/ (\E v \in TypedTexts : MayType /\ OnChange(v)) /\ KeyEffect /\ Rest
  \/ FirePropagation /\ KeyEffect /\ Rest
  \/ (\E field \in {"css", "js"} : onFile(field)) /\ KeyEffect /\ Reading
  \/ (\E txt \in ImportTexts : importResumes(txt)) /\ KeyEffect /\ Reading

SpecReading == Init /\ [][NextReading]_vars

\* C36: when the import of a style or script file completes, the two other
\* buffers hold what they held just before.
C36_ImportKeepsOtherBuffers ==
  [][ (op' = "import" /\ reading # << >>) =>
        \A f \in TabKeys \ { Head(reading).field } : Bufs'[f] = Bufs[f] ]_vars

(* ------------------------------------------------------------------ *)
(* Claims about the end of a composition                               *)
(* ------------------------------------------------------------------ *)
\* C37: when a composition ends right after an edit made in it, the buffers
\* are on top of the undo stack, a validation timeout is armed, and the
\* buffers are delivered or a propagation timeout is armed: no further
\* event of the user is needed.
C37_CompositionEndCatchesUp ==
  [][ (op = "compose" /\ op' = "compositionend") =>
        /\ Top(undoStack') = Bufs'
        /\ valTimers' # << >>
        /\ (project' = Bufs' \/ propTimers' > 0) ]_vars

(* ------------------------------------------------------------------ *)
(* Claims about what undo and redo deliver                             *)
(* ------------------------------------------------------------------ *)
\* C38: an undo or a redo that acts calls the sink with the restored
\* snapshot in the same step and leaves no propagation timeout armed: the
\* parent's project is the current snapshot and nothing older is delivered
\* later.
C38_UndoRedoFlush ==
  [][ op' \in {"undo", "redo"} =>
        /\ delivered' = 1
        /\ project' = Bufs'
        /\ Bufs' = Top(undoStack')
        /\ propTimers' = 0 /\ ~onChangeTimer' ]_vars

\* an undo right after a keystroke has changed the markup buffer and
\* delivered it, the validation timeout of the keystroke still armed
C38_Witness ==
  /\ op = "undo" /\ delivered = 1
  /\ preUndo # << >> /\ preUndo[1] # Bufs
  /\ project = Bufs /\ propTimers = 0
  /\ valTimers # << >>

(* ------------------------------------------------------------------ *)
(* Claims about the two stacks together                                *)
(* ------------------------------------------------------------------ *)
\* the undos in a row
MaxRedo == 2

\* a keystroke on a full undo stack, as long as the stack has its first entry
MayTypeOn == Len(undoStack) < HISTORY_LIMIT \/ undoStack[1] = InitialProject

\* an undo near the limit
MayUndo == Len(undoStack) + MaxRedo > HISTORY_LIMIT /\ Len(redoStack) < MaxRedo

\* a long session of typing in the markup buffer, with undo and redo once
\* the undo stack is nearly full
NextSum ==
  \/ (\E v \in TypedTexts : MayTypeOn /\ OnChange(v)) /\ KeyEffect /\ Rest
  \/ (MayUndo /\ KeyDown({"mod+z"})) /\ KeyEffect /\ Rest
  \/ KeyDown({"mod+shift+z"}) /\ KeyEffect /\ Rest

SpecSum == Init /\ [][NextSum]_vars

\* C39: the two stacks never hold more than HISTORY_LIMIT entries together;
\* an undo moves the top of the undo stack onto the redo stack and a redo
\* moves it back, every other entry staying where it is.
C39_StacksSumCapped ==
  /\ [](Len(undoStack) + Len(redoStack) <= HISTORY_LIMIT)
  /\ [][op' = "undo" =>
          /\ undoStack' = SubSeq(undoStack, 1, Len(undoStack) - 1)
          /\ redoStack' = Append(redoStack, Top(undoStack)) ]_vars
  /\ [][(op' = "redo" /\ redoStack # << >>) =>
          /\ undoStack' = Append(undoStack, Top(redoStack))
          /\ redoStack' = SubSeq(redoStack, 1, Len(redoStack) - 1) ]_vars

\* a redo has put back the entry an undo took from a full undo stack
C39_Witness ==
  /\ op = "redo"
  /\ Len(undoStack) = HISTORY_LIMIT

(* ------------------------------------------------------------------ *)
(* Claims about normalizing twice                                      *)
(* ------------------------------------------------------------------ *)
\* C40: for a markup body, normalizing what normalize returned returns it
\* unchanged, so an entry of the recents or the favorites inserts the text
\* its first insertion inserted.
C40_NormalizeIdempotent ==
  (callArg.fn = "normalize" /\ callArg.kind = "html") =>
    normalizeSnippetForBeginners(callRet, "html") = callRet

====
